---- MODULE Spec2Model ----
(***************************************************************************)
(* Document ingestion and retrieval engine of scioly-chat-bot.             *)
(*                                                                         *)
(* Strings are sequences of one-character strings, so that the string      *)
(* functions of the code (slugs, trimming, tokenising, substring search)   *)
(* are computed as the code computes them.  Two atoms stand for single     *)
(* characters that TLA+ cannot write: "NUL" (U+0000) and "BEL" (U+0007).   *)
(* The sequence <<"<null>">> stands for JavaScript null.                   *)
(***************************************************************************)
EXTENDS Integers, Sequences, FiniteSets, TLC

----------------------------------------------------------------------------
(* Characters and JavaScript string primitives *)

Null == <<"<null>">>

LowerAlpha == <<"a","b","c","d","e","f","g","h","i","j","k","l","m","n","o","p","q","r","s","t","u","v","w","x","y","z">>

UpperAlpha == <<"A","B","C","D","E","F","G","H","I","J","K","L","M","N","O","P","Q","R","S","T","U","V","W","X","Y","Z">>

DigitChars == {"0","1","2","3","4","5","6","7","8","9"}

LowerSet == {LowerAlpha[i] : i \in 1..26}

UpperSet == {UpperAlpha[i] : i \in 1..26}

\* \s of a JavaScript regular expression, and what String.prototype.trim strips
IsSpace(c) == c \in {" ", "\t", "\n", "\r", "\f"}

\* \w of a JavaScript regular expression
IsWordChar(c) == c \in LowerSet \cup UpperSet \cup DigitChars \cup {"_"}

\* a falsy string value: null or ''
Falsy(s) == s = Null \/ s = <<>>

\* (s || '')
OrEmpty(s) == IF Falsy(s) THEN <<>> ELSE s

Min(a, b) == IF a <= b THEN a ELSE b

Max(a, b) == IF a >= b THEN a ELSE b

LowerChar(c) ==
    IF c \in UpperSet
    THEN LowerAlpha[CHOOSE i \in 1..26 : UpperAlpha[i] = c]
    ELSE c

\* String.prototype.toLowerCase
ToLower(s) == [i \in 1..Len(s) |-> LowerChar(s[i])]

\* (mutation) slice without its end
SliceToEnd(s, n) == s

\* s.slice(0, n)
SliceTo(s, n) == SubSeq(s, 1, Min(n, Len(s)))

\* s.slice(n) for n >= 0, n counted from 0
SliceFrom(s, n) == SubSeq(s, n + 1, Len(s))

RECURSIVE TrimLeft(_)
TrimLeft(s) ==
    IF s # <<>> /\ IsSpace(Head(s)) THEN TrimLeft(Tail(s)) ELSE s

RECURSIVE TrimRight(_)
TrimRight(s) ==
    IF s # <<>> /\ IsSpace(s[Len(s)]) THEN TrimRight(SubSeq(s, 1, Len(s) - 1)) ELSE s

\* String.prototype.trim
Trim(s) == TrimRight(TrimLeft(s))

StartsWith(s, p) == Len(s) >= Len(p) /\ SubSeq(s, 1, Len(p)) = p

EndsWith(s, p) == Len(s) >= Len(p) /\ SubSeq(s, Len(s) - Len(p) + 1, Len(s)) = p

\* String.prototype.includes
Includes(s, t) ==
    \E i \in 0..(Len(s) - Len(t)) : SubSeq(s, i + 1, i + Len(t)) = t

\* s.split(sep) for a one-character separator: always at least one piece;
\* the pieces lie between the positions of sep (cur is put before the first)
SplitOn(s, sep, cur) ==
    LET at == SelectSeq([i \in 1..Len(s) |-> i], LAMBDA i : s[i] = sep)
        piece(k) == SubSeq(s, IF k = 1 THEN 1 ELSE at[k - 1] + 1,
                              IF k > Len(at) THEN Len(s) ELSE at[k] - 1)
    IN  [k \in 1..(Len(at) + 1) |-> IF k = 1 THEN cur \o piece(k) ELSE piece(k)]

\* Array.prototype.join with a string separator (joined by halves, which
\* keeps the evaluation shallow for long arrays)
RECURSIVE JoinWith(_, _)
JoinWith(parts, sep) ==
    IF parts = <<>> THEN <<>>
    ELSE IF Len(parts) = 1 THEN parts[1]
    ELSE LET half == Len(parts) \div 2
         IN  JoinWith(SubSeq(parts, 1, half), sep) \o sep
               \o JoinWith(SubSeq(parts, half + 1, Len(parts)), sep)

\* Array.prototype.indexOf, counted from 0, -1 when absent
IndexOf(seq, x) ==
    IF \E i \in 1..Len(seq) : seq[i] = x
    THEN (CHOOSE i \in 1..Len(seq) : seq[i] = x /\ \A j \in 1..(i - 1) : seq[j] # x) - 1
    ELSE -1

\* the last position (from 1) of character c in s, 0 when absent
LastPos(s, c) ==
    IF \E i \in 1..Len(s) : s[i] = c
    THEN CHOOSE i \in 1..Len(s) : s[i] = c /\ \A j \in (i + 1)..Len(s) : s[j] # c
    ELSE 0

----------------------------------------------------------------------------
(* path.basename, path.extname, path.resolve (POSIX) *)

\* trailing slashes do not count for basename/extname
RECURSIVE StripTrailingSlashes(_)
StripTrailingSlashes(p) ==
    IF Len(p) > 1 /\ p[Len(p)] = "/" THEN StripTrailingSlashes(SubSeq(p, 1, Len(p) - 1)) ELSE p

PathBasename(p) ==
    LET q == StripTrailingSlashes(p)
    IN  SliceFrom(q, LastPos(q, "/"))

PathExtname(p) ==
    LET b == PathBasename(p)
        dot == LastPos(b, ".")
    IN  IF dot <= 1 THEN <<>> ELSE SliceFrom(b, dot - 1)

\* path.basename(p, ext)
PathBasenameExt(p, ext) ==
    LET b == PathBasename(p)
    IN  IF ext # <<>> /\ b # ext /\ EndsWith(b, ext)
        THEN SubSeq(b, 1, Len(b) - Len(ext))
        ELSE b

\* the segments of a path with '' and '.' dropped and '..' applied
RECURSIVE NormalizeSegments(_, _)
NormalizeSegments(segs, acc) ==
    IF segs = <<>> THEN acc
    ELSE IF Head(segs) = <<>> \/ Head(segs) = <<".">> THEN NormalizeSegments(Tail(segs), acc)
    ELSE IF Head(segs) = <<".", ".">>
         THEN NormalizeSegments(Tail(segs), IF acc = <<>> THEN acc ELSE SubSeq(acc, 1, Len(acc) - 1))
    ELSE NormalizeSegments(Tail(segs), Append(acc, Head(segs)))

\* the working directory of the function process
ProcessCwd == <<"/","v">>

\* path.resolve(p): an absolute, normalized path without a trailing slash
PathResolve(p) ==
    LET abs == IF p # <<>> /\ Head(p) = "/" THEN p ELSE ProcessCwd \o <<"/">> \o p
        segs == NormalizeSegments(SplitOn(abs, "/", <<>>), <<>>)
    IN  IF segs = <<>> THEN <<"/">> ELSE <<"/">> \o JoinWith(segs, <<"/">>)

----------------------------------------------------------------------------
(* Text extraction: src/amplify/backend.ts *)

\* the characters of [\x00-\x08\x0B-\x0C\x0E-\x1F\x7F-\x9F] that texts here use
IsControlChar(c) == c \in {"NUL", "BEL", "\f"}

sanitizeText(text) ==
    IF Falsy(text) THEN text
    ELSE LET noNul == SelectSeq(text, LAMBDA c : c # "NUL")
             spaced == [i \in 1..Len(noNul) |-> IF IsControlChar(noNul[i]) THEN " " ELSE noNul[i]]
         IN  Trim(spaced)

----------------------------------------------------------------------------
(* Tabular normalizer and snippets: src/amplify/functions/documents/handler.ts *)

\* the scan of splitCsvLine from position i (from 1): out, cur and inQuotes are its locals
RECURSIVE CsvScan(_, _, _, _, _)
CsvScan(line, i, out, cur, inQuotes) ==
    IF i > Len(line) THEN Append(out, Trim(cur))
    ELSE IF line[i] = "\""
         THEN IF inQuotes /\ i + 1 <= Len(line) /\ line[i + 1] = "\""
              THEN CsvScan(line, i + 2, out, Append(cur, "\""), inQuotes)
              ELSE CsvScan(line, i + 1, out, cur, ~inQuotes)
    ELSE IF line[i] = "," /\ ~inQuotes
         THEN CsvScan(line, i + 1, Append(out, Trim(cur)), <<>>, inQuotes)
    ELSE CsvScan(line, i + 1, out, Append(cur, line[i]), inQuotes)

\* (mutation) splitCsvLine taking every comma for a separator
splitCsvLineUnquoted(line) ==
    LET pieces == SplitOn(line, ",", <<>>)
    IN  [i \in 1..Len(pieces) |-> Trim(pieces[i])]

splitCsvLine(line) == CsvScan(line, 1, <<>>, <<>>, FALSE)

TeamWord == <<"t","e","a","m">>

\* (mutation) /^team/i.test(s)
StartsWithTeamLetters(s) == Len(s) >= 4 /\ ToLower(SubSeq(s, 1, 4)) = TeamWord

\* /^team\s+/i.test(s)
StartsWithTeamWord(s) ==
    /\ Len(s) >= 5
    /\ ToLower(SubSeq(s, 1, 4)) = TeamWord
    /\ IsSpace(s[5])

normalizeSchoolTeamLabel(school, team) ==
    LET schoolName == Trim(OrEmpty(school))
        rawTeam == Trim(OrEmpty(team))
    IN  IF schoolName = <<>> THEN <<>>
        ELSE IF rawTeam = <<>> THEN schoolName \o <<" ","T","e","a","m"," ","U","n","s","p","e","c","i","f","i","e","d">>
        ELSE IF StartsWithTeamWord(rawTeam) THEN schoolName \o <<" ">> \o rawTeam
        ELSE schoolName \o <<" ","T","e","a","m"," ">> \o rawTeam

IsDigits(s) == \A i \in 1..Len(s) : s[i] \in DigitChars

\* base.match(/^(\d{4}-\d{2}-\d{2})_(.+)$/): '.' matches no line terminator
MatchesDatePrefix(base) ==
    /\ Len(base) >= 12
    /\ IsDigits(SubSeq(base, 1, 4)) /\ base[5] = "-"
    /\ IsDigits(SubSeq(base, 6, 7)) /\ base[8] = "-"
    /\ IsDigits(SubSeq(base, 9, 10)) /\ base[11] = "_"
    /\ \A i \in 12..Len(base) : base[i] \notin {"\n", "\r"}

\* s.replace(/_+/g, ' ')
RECURSIVE CollapseUnderscores(_)
CollapseUnderscores(s) ==
    IF s = <<>> THEN <<>>
    ELSE IF Head(s) = "_"
         THEN IF Len(s) >= 2 /\ s[2] = "_" THEN CollapseUnderscores(Tail(s))
              ELSE <<" ">> \o CollapseUnderscores(Tail(s))
    ELSE <<Head(s)>> \o CollapseUnderscores(Tail(s))

\* s.replace(/_c$/i, '')
StripDivisionSuffix(s) ==
    IF Len(s) >= 2 /\ s[Len(s) - 1] = "_" /\ LowerChar(s[Len(s)]) = "c"
    THEN SubSeq(s, 1, Len(s) - 2)
    ELSE s

parseTournamentMeta(filename) ==
    LET base == PathBasenameExt(filename, PathExtname(filename))
    IN  IF ~MatchesDatePrefix(base)
        THEN [date |-> <<"u","n","k","n","o","w","n","-","d","a","t","e">>, tournament |-> base]
        ELSE [date |-> SubSeq(base, 1, 10),
              tournament |-> Trim(CollapseUnderscores(StripDivisionSuffix(SliceFrom(base, 11))))]

GENERIC_SNIPPET_CAP == 4000

TABULAR_SNIPPET_CAP == 24000

\* rawText.split(/\r?\n/).map(trim).filter(Boolean): trim drops the '\r' a '\r\n' leaves
NonEmptyLines(rawText) ==
    LET pieces == SplitOn(rawText, "\n", <<>>)
        trimmed == [i \in 1..Len(pieces) |-> Trim(pieces[i])]
    IN  SelectSeq(trimmed, LAMBDA l : l # <<>>)

\* cols[idx] || '' with idx counted from 0; '' too when idx < 0 (an optional column)
ColumnAt(cols, idx) == IF idx >= 0 /\ idx < Len(cols) THEN cols[idx + 1] ELSE <<>>

SciolyHeaderLine(filename) ==
    <<"S","c","i","o","l","y"," ","r","e","s","u","l","t","s"," ","e","x","t","r","a","c","t","e","d"," ","f","r","o","m"," ">>
      \o PathBasename(filename) \o <<".">>

SciolyHintLine == <<"T","r","e","a","t"," ","e","a","c","h"," ","t","e","a","m"," ","l","a","b","e","l"," ","a","s"," ","d","i","s","t","i","n","c","t"," ","(","e","x","a","m","p","l","e",":"," ","T","e","a","m"," ","A"," ","v","s"," ","T","e","a","m"," ","B",")",".">>

\* the line the loop body of buildSciolyResultsSnippet pushes for one data row, <<>> when it pushes none
SciolyRowLine(line, idx, meta) ==
    LET cols == splitCsvLine(line)
        school == ColumnAt(cols, idx.school)
        team == ColumnAt(cols, idx.team)
        rank == ColumnAt(cols, idx.rank)
        total == ColumnAt(cols, idx.total)
        state == ColumnAt(cols, idx.state)
        track == ColumnAt(cols, idx.track)
        teamLabel == normalizeSchoolTeamLabel(school, team)
    IN  IF teamLabel = <<>> \/ rank = <<>> \/ total = <<>> THEN <<>>
        ELSE meta.date \o <<" ","|"," ">> \o meta.tournament \o <<" ","|"," ">> \o teamLabel
               \o <<" ","|"," ","r","a","n","k","=">> \o rank
               \o <<" ","|"," ","t","o","t","a","l","=">> \o total
               \o (IF state # <<>> THEN <<" ","|"," ","s","t","a","t","e","=">> \o state ELSE <<>>)
               \o (IF track # <<>> THEN <<" ","|"," ","t","r","a","c","k","=">> \o track ELSE <<>>)

buildSciolyResultsSnippet(rawText, filename) ==
    LET lines == NonEmptyLines(OrEmpty(rawText))
    IN  IF Len(lines) < 2 THEN SliceTo(rawText, GENERIC_SNIPPET_CAP)
        ELSE LET headers == [i \in 1..Len(splitCsvLine(lines[1])) |-> ToLower(splitCsvLine(lines[1])[i])]
                 idx == [school |-> IndexOf(headers, <<"s","c","h","o","o","l">>),
                         team |-> IndexOf(headers, <<"t","e","a","m">>),
                         rank |-> IndexOf(headers, <<"r","a","n","k">>),
                         total |-> IndexOf(headers, <<"t","o","t","a","l">>),
                         state |-> IndexOf(headers, <<"s","t","a","t","e">>),
                         track |-> IndexOf(headers, <<"t","r","a","c","k">>)]
             IN  IF idx.school < 0 \/ idx.rank < 0 \/ idx.total < 0
                 THEN SliceTo(rawText, GENERIC_SNIPPET_CAP)
                 ELSE LET meta == parseTournamentMeta(filename)
                          rows == [i \in 1..(Len(lines) - 1) |-> SciolyRowLine(lines[i + 1], idx, meta)]
                          normalizedLines == <<SciolyHeaderLine(filename), SciolyHintLine>>
                                               \o SelectSeq(rows, LAMBDA r : r # <<>>)
                      IN  SliceTo(JoinWith(normalizedLines, <<"\n">>), TABULAR_SNIPPET_CAP)

\* the reserved tabular topic
SCIOLY_RESULTS == <<"s","c","i","o","l","y"," ","r","e","s","u","l","t","s">>

CSV_EXT == <<".","c","s","v">>

\* s.replace(/[^a-z0-9]+/g, '_')
RECURSIVE CollapseNonAlnum(_, _)
CollapseNonAlnum(s, inRun) ==
    IF s = <<>> THEN <<>>
    ELSE IF Head(s) \in LowerSet \cup DigitChars
         THEN <<Head(s)>> \o CollapseNonAlnum(Tail(s), FALSE)
    ELSE IF inRun THEN CollapseNonAlnum(Tail(s), TRUE)
    ELSE <<"_">> \o CollapseNonAlnum(Tail(s), TRUE)

\* s.replace(/^_|_$/g, '')
StripEdgeUnderscore(s) ==
    LET a == IF s # <<>> /\ Head(s) = "_" THEN Tail(s) ELSE s
    IN  IF a # <<>> /\ a[Len(a)] = "_" THEN SubSeq(a, 1, Len(a) - 1) ELSE a

topicToSlug(topic) == StripEdgeUnderscore(CollapseNonAlnum(ToLower(topic), FALSE))

slugToTopic(slug) ==
    LET s == OrEmpty(slug)
    IN  Trim([i \in 1..Len(s) |-> IF s[i] = "_" THEN " " ELSE s[i]])

\* (mutation) buildSnippet normalizing the .csv files of every topic
buildSnippetOfAnyTopic(topic, text, relName, ext) ==
    IF ext = CSV_EXT
    THEN buildSciolyResultsSnippet(OrEmpty(text), relName)
    ELSE SliceTo(OrEmpty(text), GENERIC_SNIPPET_CAP)

buildSnippet(topic, text, relName, ext) ==
    IF topic = SCIOLY_RESULTS /\ ext = CSV_EXT
    THEN buildSciolyResultsSnippet(OrEmpty(text), relName)
    ELSE SliceTo(OrEmpty(text), GENERIC_SNIPPET_CAP)

inferTopicFromRelativeName(relName) ==
    LET normalized == [i \in 1..Len(relName) |-> IF relName[i] = "\\" THEN "/" ELSE relName[i]]
        parts == SelectSeq(SplitOn(normalized, "/", <<>>), LAMBDA x : x # <<>>)
    IN  IF Len(parts) < 2 THEN Null
        ELSE IF slugToTopic(parts[1]) = <<>> THEN Null
        ELSE slugToTopic(parts[1])

S3_SCHEME == <<"s","3",":","/","/">>

\* (mutation) the stored path taken as it is
resolveExistingPathKeyRaw(p) == OrEmpty(p)

\* resolveExistingPathKey(p): the key a stored path is looked up under
resolveExistingPathKey(p) ==
    LET raw == OrEmpty(p)
    IN  IF raw = <<>> THEN <<>>
        ELSE IF StartsWith(raw, S3_SCHEME) THEN raw
        ELSE PathResolve(raw)

----------------------------------------------------------------------------
(* Configuration and corpus *)

\* path.resolve(__dirname, '..', '..', '..', 'local_docs') of the deployment
LOCAL_DOCS_DIR == <<"/","l">>

\* process.env.STORAGE_BUCKET_NAME when it is set
STORAGE_BUCKET_NAME == <<"b">>

\* process.env.S3_DOCS_PREFIX of the deployment
S3_DOCS_PREFIX == <<"p","/">>

ALLOWED_PROVIDERS == {"openai", "google", "bedrock"}

\* a null embedding_provider
NoProvider == "<null>"

FORENSICS == <<"f","o","r","e","n","s","i","c","s">>

DESIGNER_GENES == <<"d","e","s","i","g","n","e","r"," ","g","e","n","e","s">>

DEFAULT_TOPICS == <<FORENSICS, DESIGNER_GENES, SCIOLY_RESULTS>>

\* the deployments: which credentials (OPENAI_API_KEY, GOOGLE_API_KEY) and
\* whether a bucket (STORAGE_BUCKET_NAME) are configured
EnvConfigs ==
    { [openaiKey |-> TRUE, googleKey |-> TRUE, bucket |-> TRUE],
      [openaiKey |-> FALSE, googleKey |-> TRUE, bucket |-> FALSE],
      [openaiKey |-> FALSE, googleKey |-> FALSE, bucket |-> FALSE] }

DEFAULT_PROVIDER(e) ==
    IF e.openaiKey THEN "openai" ELSE IF e.googleKey THEN "google" ELSE "bedrock"

\* the files that can exist under LOCAL_DOCS_DIR, in directory-walk order:
\* rel is the name relative to LOCAL_DOCS_DIR, content the raw file content
LocalCorpus ==
    << [rel |-> <<"f","o","r","e","n","s","i","c","s","/","a",".","t","x","t">>,
        content |-> <<"a","b","NUL">>],
       [rel |-> <<"f","o","r","e","n","s","i","c","s","/","e",".","t","x","t">>,
        content |-> <<" ","\n">>] >>

\* the objects users can put in the bucket: a directory marker and a results table
S3Corpus ==
    << [key |-> S3_DOCS_PREFIX \o <<"f","o","r","e","n","s","i","c","s","/">>,
        content |-> <<>>],
       [key |-> S3_DOCS_PREFIX \o <<"s","c","i","o","l","y","_","r","e","s","u","l","t","s","/","2","0","2","4","-","0","1","-","0","2","_","m","_","c",".","c","s","v">>,
        content |-> <<"s","c","h","o","o","l",",","r","a","n","k",",","t","o","t","a","l","\n","X",",","1",",","9">>] >>

\* the placeholder key ensureS3TopicFolders writes for a topic
KeepKey(topic) == S3_DOCS_PREFIX \o topicToSlug(topic) \o <<"/",".","k","e","e","p">>

KeepKeys == {KeepKey(DEFAULT_TOPICS[i]) : i \in 1..Len(DEFAULT_TOPICS)}

LocalRels == {LocalCorpus[i].rel : i \in 1..Len(LocalCorpus)}

S3CorpusKeys == {S3Corpus[i].key : i \in 1..Len(S3Corpus)}

\* every key the bucket can hold, in the (lexicographic) order ListObjectsV2 lists them
S3KeyOrder ==
    << KeepKey(DESIGNER_GENES), S3Corpus[1].key, KeepKey(FORENSICS), KeepKey(SCIOLY_RESULTS),
       S3Corpus[2].key >>

\* (mutation) PutObject of a placeholder writes a body that is not empty
S3BodyOfFilledPlaceholder(key) ==
    IF key \in KeepKeys THEN <<"k","e","e","p">>
    ELSE S3Corpus[CHOOSE i \in 1..Len(S3Corpus) : S3Corpus[i].key = key].content

\* the body of an object: PutObject of a placeholder writes the empty body
S3Body(key) ==
    IF key \in KeepKeys THEN <<>>
    ELSE S3Corpus[CHOOSE i \in 1..Len(S3Corpus) : S3Corpus[i].key = key].content

LocalContent(rel) == LocalCorpus[CHOOSE i \in 1..Len(LocalCorpus) : LocalCorpus[i].rel = rel].content

----------------------------------------------------------------------------
(* Embeddings: src/amplify/backend.ts.  An optional vector is <<>> (null)  *)
(* or <<v>>.                                                               *)

\* The vector a backend's embedding model gives a text.  A model is a fixed
\* function of the text; the two providers' models differ in dimension.  The
\* vectors have integer components and an integral Euclidean norm, so that a
\* cosine score is an exact rational.
ModelVector(provider, text) ==
    IF provider = "openai"
    THEN IF text = <<>> THEN <<0, 5>>
         ELSE IF LowerChar(text[1]) = "a" THEN <<3, 4>>
         ELSE IF LowerChar(text[1]) = "b" THEN <<-3, -4>>
         ELSE <<4, 3>>
    ELSE IF text # <<>> /\ LowerChar(text[1]) = "a" THEN <<5>> ELSE <<-5>>

\* what a backend request can end in: "fail" (transport error, non-OK
\* status, no vector in the response) or "ok"
BackendResponses == {"ok", "fail"}

\* whether computeEmbedding(text, provider) sends a request to a backend
CallsBackend(e, provider) ==
    \/ provider = "openai" /\ e.openaiKey
    \/ provider = "google" /\ e.googleKey

\* (mutation) a vector whatever the credential and the response
computeEmbeddingOfAnyResponse(e, text, provider, resp) == <<ModelVector(provider, text)>>

\* computeEmbedding(text, provider) when a request, if sent, ends in resp
computeEmbedding(e, text, provider, resp) ==
    IF CallsBackend(e, provider) /\ resp = "ok" THEN <<ModelVector(provider, text)>> ELSE <<>>

DigitSeq == <<"0","1","2","3","4","5","6","7","8","9">>

DigitOf(n) == DigitSeq[n + 1]

RECURSIVE NatToChars(_)
NatToChars(n) == IF n < 10 THEN <<DigitOf(n)>> ELSE Append(NatToChars(n \div 10), DigitOf(n % 10))

IntToChars(n) == IF n < 0 THEN <<"-">> \o NatToChars(-n) ELSE NatToChars(n)

RECURSIVE CharsToNat(_, _)
CharsToNat(cs, acc) ==
    IF cs = <<>> THEN acc
    ELSE CharsToNat(Tail(cs), 10 * acc + (CHOOSE i \in 0..9 : DigitOf(i) = Head(cs)))

CharsToInt(cs) == IF cs # <<>> /\ Head(cs) = "-" THEN -CharsToNat(Tail(cs), 0) ELSE CharsToNat(cs, 0)

\* JSON.stringify of a vector of integers
JsonStringify(v) ==
    <<"[">> \o JoinWith([i \in 1..Len(v) |-> IntToChars(v[i])], <<",">>) \o <<"]">>

\* JSON.parse of a serialized vector of integers
JsonParse(str) ==
    LET inner == SubSeq(str, 2, Len(str) - 1)
        items == IF inner = <<>> THEN <<>> ELSE SplitOn(inner, ",", <<>>)
    IN  [i \in 1..Len(items) |-> CharsToInt(items[i])]

\* A score is the number n / (d + e * 1e-12), with integers n, d >= 0 and e in {0, 1}.
IntScore(n) == [n |-> n, d |-> 1, e |-> 0]

\* a < b, exactly: |e-part| * 1e-12 is below 1, so the integer part decides first
ScoreLess(a, b) ==
    LET ipart == a.n * b.d - b.n * a.d
        epart == a.n * b.e - b.n * a.e
    IN  ipart < 0 \/ (ipart = 0 /\ epart < 0)

RECURSIVE DotProduct(_, _)
DotProduct(a, b) ==
    IF a = <<>> THEN 0 ELSE Head(a) * Head(b) + DotProduct(Tail(a), Tail(b))

\* Math.sqrt of a perfect square
SqrtExact(n) == CHOOSE r \in 0..n : r * r = n

\* (mutation) the shorter of two vectors of different lengths padded with zeros
cosineOfPadded(a, b) ==
    IF a = <<>> \/ b = <<>> THEN IntScore(-1)
    ELSE LET n == Min(Len(a[1]), Len(b[1]))
         IN  [n |-> DotProduct(SubSeq(a[1], 1, n), SubSeq(b[1], 1, n)),
              d |-> SqrtExact(DotProduct(a[1], a[1])) * SqrtExact(DotProduct(b[1], b[1])),
              e |-> 1]

\* cosine(a, b) of two optional vectors
cosine(a, b) ==
    IF a = <<>> \/ b = <<>> THEN IntScore(-1)
    ELSE IF Len(a[1]) # Len(b[1]) THEN IntScore(-1)
    ELSE [n |-> DotProduct(a[1], b[1]),
          d |-> SqrtExact(DotProduct(a[1], a[1])) * SqrtExact(DotProduct(b[1], b[1])),
          e |-> 1]

----------------------------------------------------------------------------
(* Source enumeration: src/amplify/functions/documents/handler.ts *)

PDF_EXT == <<".","p","d","f">>

WORD_EXTS == {<<".","d","o","c","x">>, <<".","d","o","c">>}

\* extractTextFromBuffer(buffer, ext): parses says whether the PDF or Word
\* parser accepts the buffer.  [threw, text]
extractTextFromBuffer(buffer, ext, parses) ==
    LET normalizedExt == ToLower(OrEmpty(ext))
    IN  IF normalizedExt = PDF_EXT
        THEN IF parses THEN [threw |-> FALSE, text |-> sanitizeText(buffer)]
             ELSE [threw |-> TRUE, text |-> <<>>]
        ELSE IF normalizedExt \in WORD_EXTS
        THEN IF parses THEN [threw |-> FALSE, text |-> sanitizeText(buffer)]
             ELSE [threw |-> FALSE, text |-> <<>>]
        ELSE [threw |-> FALSE, text |-> sanitizeText(buffer)]

\* the ImportSource of a local file, for walkDir's entry full = LOCAL_DOCS_DIR/rel
LocalSource(rel, topicFilter) ==
    LET full == LOCAL_DOCS_DIR \o <<"/">> \o rel
    IN  [sourcePath |-> PathResolve(full),
         filename |-> rel,
         topic |-> IF Falsy(topicFilter) THEN inferTopicFromRelativeName(rel) ELSE topicFilter,
         ext |-> ToLower(PathExtname(full)),
         backend |-> "local",
         ref |-> rel]

\* collectLocalSources(topicFilter) over the files present
collectLocalSources(topicFilter, files) ==
    LET rootDir == IF Falsy(topicFilter) THEN LOCAL_DOCS_DIR
                   ELSE PathResolve(LOCAL_DOCS_DIR \o <<"/">> \o topicToSlug(topicFilter))
        walked == SelectSeq([i \in 1..Len(LocalCorpus) |-> LocalCorpus[i].rel],
                            LAMBDA rel : rel \in files
                                         /\ StartsWith(LOCAL_DOCS_DIR \o <<"/">> \o rel, rootDir \o <<"/">>))
    IN  [i \in 1..Len(walked) |-> LocalSource(walked[i], topicFilter)]

\* the ImportSource of an object key
S3Source(key, topicFilter) ==
    LET relName == IF StartsWith(key, S3_DOCS_PREFIX) THEN SliceFrom(key, Len(S3_DOCS_PREFIX)) ELSE key
    IN  [sourcePath |-> S3_SCHEME \o STORAGE_BUCKET_NAME \o <<"/">> \o key,
         filename |-> relName,
         topic |-> IF Falsy(topicFilter) THEN inferTopicFromRelativeName(relName) ELSE topicFilter,
         ext |-> ToLower(PathExtname(relName)),
         backend |-> "s3",
         ref |-> key]

\* collectS3Sources(topicFilter) over the keys present, when the listing succeeds
collectS3Sources(topicFilter, e, keys) ==
    IF ~e.bucket THEN <<>>
    ELSE LET prefix == IF Falsy(topicFilter) THEN S3_DOCS_PREFIX
                       ELSE S3_DOCS_PREFIX \o topicToSlug(topicFilter) \o <<"/">>
             listed == SelectSeq(S3KeyOrder,
                                 LAMBDA key : key \in keys /\ StartsWith(key, prefix))
             kept == SelectSeq(listed, LAMBDA key : key # <<>> /\ ~EndsWith(key, <<"/">>))
         IN  [i \in 1..Len(kept) |-> S3Source(kept[i], topicFilter)]

\* the topics import-by-topic is requested for
ImportTopics == {FORENSICS, SCIOLY_RESULTS, DESIGNER_GENES}

\* labels of the same folders as FORENSICS and SCIOLY_RESULTS, written with capitals
OtherTopicLabels ==
    { <<"F","o","r","e","n","s","i","c","s">>,
      <<"S","c","i","o","l","y"," ","R","e","s","u","l","t","s">> }

\* the topicFilter arguments: a topic, or none (preprocess)
TopicFilters == ImportTopics \cup OtherTopicLabels \cup {Null}

\* every key the bucket can hold
AllS3Keys == S3CorpusKeys \cup KeepKeys

\* collectLocalSources and collectS3Sources over every file and key, tabulated:
\* an ImportSource depends on its own file or key only, so the result for the
\* files and keys present is the part of the table whose files and keys are present
LocalSourcesTable == [topicFilter \in TopicFilters |-> collectLocalSources(topicFilter, LocalRels)]

S3SourcesTable ==
    [topicFilter \in TopicFilters |->
        [e \in EnvConfigs |-> collectS3Sources(topicFilter, e, AllS3Keys)]]

LocalSourcesOf(topicFilter, files) ==
    SelectSeq(LocalSourcesTable[topicFilter], LAMBDA source : source.ref \in files)

S3SourcesOf(topicFilter, e, keys) ==
    SelectSeq(S3SourcesTable[topicFilter][e], LAMBDA source : source.ref \in keys)

\* every ImportSource the enumerators can return
EnumeratedSources ==
    UNION {{LocalSourcesTable[tf][i] : i \in 1..Len(LocalSourcesTable[tf])} : tf \in TopicFilters}
    \cup UNION {{S3SourcesTable[tf][e][i] : i \in 1..Len(S3SourcesTable[tf][e])}
                  : tf \in TopicFilters, e \in EnvConfigs}

\* the raw content a source's loadText reads
SourceContent(source) ==
    IF source.backend = "local" THEN LocalContent(source.ref) ELSE S3Body(source.ref)

----------------------------------------------------------------------------
(* The Document store and the corpus synchronizer *)

\* the ways loading a source's text can end: "ok", "ioerror" (the read or the
\* fetch throws), "unparsable" (the PDF or Word parser rejects the bytes)
LoadOutcomes(source) ==
    IF source.ext = PDF_EXT \/ source.ext \in WORD_EXTS
    THEN {"ok", "ioerror", "unparsable"}
    ELSE {"ok", "ioerror"}

\* source.loadText() followed by buildSnippet(source.topic, text, source.filename, source.ext):
\* [threw, snippet]
loadSnippet(source, load) ==
    LET loaded == extractTextFromBuffer(SourceContent(source), source.ext, load # "unparsable")
    IN  IF load = "ioerror" \/ loaded.threw THEN [threw |-> TRUE, snippet |-> <<>>]
        ELSE [threw |-> FALSE,
              snippet |-> buildSnippet(source.topic, loaded.text, source.filename, source.ext)]

\* Sources for a run of the synchronizer on its own: the text file and the
\* whitespace file, each also as enumerated under another display name, and
\* the results table
SameFileOtherName ==
    [LocalSource(LocalCorpus[1].rel, Null) EXCEPT !.filename = <<"b",".","t","x","t">>]

BlankFileOtherName ==
    [LocalSource(LocalCorpus[2].rel, Null) EXCEPT !.filename = <<"f",".","t","x","t">>]

SyncSourcePool ==
    { LocalSource(LocalCorpus[1].rel, Null), SameFileOtherName,
      LocalSource(LocalCorpus[2].rel, Null), BlankFileOtherName,
      S3Source(S3Corpus[2].key, Null) }

\* the sources a run can be given
KnownSources == EnumeratedSources \cup SyncSourcePool

\* loadSnippet, tabulated
SnippetTable ==
    [source \in KnownSources |-> [load \in LoadOutcomes(source) |-> loadSnippet(source, load)]]

\* a Document that predates the runs: written with a path that is not
\* normalized, and embedded by an earlier model of another dimension
LegacyDocument ==
    [id |-> 1,
     filename |-> <<"o","l","d","/","a",".","t","x","t">>,
     path |-> <<"/","l","/","f","o","r","e","n","s","i","c","s","/",".","/","a",".","t","x","t">>,
     topic |-> FORENSICS,
     text |-> <<"a","b">>,
     embedding |-> JsonStringify(<<5>>),
     embedding_provider |-> "openai"]

\* the paths Documents are stored with
KnownPaths == {source.sourcePath : source \in KnownSources} \cup {LegacyDocument.path}

\* resolveExistingPathKey, tabulated over the paths Documents are stored with
PathKeyTable == [p \in KnownPaths |-> resolveExistingPathKey(p)]

\* (mutation) the lookup keyed on the display name
BuildExistingByFilename(ds) ==
    [k \in {ds[i].filename : i \in 1..Len(ds)} |->
        ds[CHOOSE i \in 1..Len(ds) : ds[i].filename = k].id]

\* new Map(existingDocs.map(d => [resolveExistingPathKey(d.path), d]).filter(([k]) => Boolean(k))):
\* a later Document replaces an earlier one under the same key; the value kept is the id
BuildExistingByPath(ds) ==
    LET keyOf(i) == PathKeyTable[ds[i].path]
        keys == {keyOf(i) : i \in 1..Len(ds)} \ {<<>>}
    IN  [k \in keys |->
            ds[CHOOSE i \in 1..Len(ds) : keyOf(i) = k /\ \A j \in (i + 1)..Len(ds) : keyOf(j) # k].id]

\* (mutation) the provider recorded whether or not there is an embedding
DocumentFieldsTagged(source, snippet, emb, provider) ==
    [filename |-> source.filename,
     path |-> source.sourcePath,
     topic |-> source.topic,
     text |-> snippet,
     embedding |-> IF emb # <<>> THEN JsonStringify(emb[1]) ELSE <<>>,
     embedding_provider |-> provider]

\* the fields Document.create and Document.update are given by upsertDocument
DocumentFields(source, snippet, emb, provider) ==
    [filename |-> source.filename,
     path |-> source.sourcePath,
     topic |-> source.topic,
     text |-> snippet,
     embedding |-> IF emb # <<>> THEN JsonStringify(emb[1]) ELSE <<>>,
     embedding_provider |-> IF emb # <<>> THEN provider ELSE NoProvider]

\* a stored Document: the fields and the store's id
StoredDocument(id, fields) ==
    [id |-> id, filename |-> fields.filename, path |-> fields.path, topic |-> fields.topic,
     text |-> fields.text, embedding |-> fields.embedding,
     embedding_provider |-> fields.embedding_provider]

\* (mutation) a created Document is not entered in the lookup
upsertDocumentNoRegister(existingByPath, source, provider, ds, e, load, resp, store) ==
    LET loaded == SnippetTable[source][load]
        snippet == loaded.snippet
        emb == IF provider # NoProvider THEN computeEmbedding(e, snippet, provider, resp) ELSE <<>>
        fields == DocumentFields(source, snippet, emb, provider)
        known == source.sourcePath \in DOMAIN existingByPath
    IN  IF loaded.threw
        THEN [ds |-> ds, byPath |-> existingByPath, outcome |-> "failed"]
        ELSE IF Trim(snippet) = <<>>
        THEN [ds |-> ds, byPath |-> existingByPath, outcome |-> "empty"]
        ELSE IF store # "ok"
        THEN [ds |-> ds, byPath |-> existingByPath, outcome |-> "failed"]
        ELSE IF known
        THEN LET id == existingByPath[source.sourcePath]
             IN  [ds |-> [i \in 1..Len(ds) |->
                             IF ds[i].id = id THEN StoredDocument(id, fields) ELSE ds[i]],
                  byPath |-> (source.sourcePath :> id) @@ existingByPath,
                  outcome |-> "updated"]
        ELSE LET id == Len(ds) + 1
             IN  [ds |-> Append(ds, StoredDocument(id, fields)),
                  byPath |-> existingByPath,
                  outcome |-> "added"]

\* (mutation) a blank snippet is written like any other
upsertDocumentNoSkip(existingByPath, source, provider, ds, e, load, resp, store) ==
    LET loaded == SnippetTable[source][load]
        snippet == loaded.snippet
        emb == IF provider # NoProvider THEN computeEmbedding(e, snippet, provider, resp) ELSE <<>>
        fields == DocumentFields(source, snippet, emb, provider)
        known == source.sourcePath \in DOMAIN existingByPath
    IN  IF loaded.threw
        THEN [ds |-> ds, byPath |-> existingByPath, outcome |-> "failed"]
        ELSE IF store # "ok"
        THEN [ds |-> ds, byPath |-> existingByPath, outcome |-> "failed"]
        ELSE IF known
        THEN LET id == existingByPath[source.sourcePath]
             IN  [ds |-> [i \in 1..Len(ds) |->
                             IF ds[i].id = id THEN StoredDocument(id, fields) ELSE ds[i]],
                  byPath |-> (source.sourcePath :> id) @@ existingByPath,
                  outcome |-> "updated"]
        ELSE LET id == Len(ds) + 1
             IN  [ds |-> Append(ds, StoredDocument(id, fields)),
                  byPath |-> (source.sourcePath :> id) @@ existingByPath,
                  outcome |-> "added"]

\* (mutation) an update without a vector leaves the stored embedding and
\* embedding_provider as they are
upsertDocumentKeepingEmbedding(existingByPath, source, provider, ds, e, load, resp, store) ==
    LET loaded == SnippetTable[source][load]
        snippet == loaded.snippet
        emb == IF provider # NoProvider THEN computeEmbedding(e, snippet, provider, resp) ELSE <<>>
        fields == DocumentFields(source, snippet, emb, provider)
        known == source.sourcePath \in DOMAIN existingByPath
    IN  IF loaded.threw
        THEN [ds |-> ds, byPath |-> existingByPath, outcome |-> "failed"]
        ELSE IF Trim(snippet) = <<>>
        THEN [ds |-> ds, byPath |-> existingByPath, outcome |-> "empty"]
        ELSE IF store # "ok"
        THEN [ds |-> ds, byPath |-> existingByPath, outcome |-> "failed"]
        ELSE IF known
        THEN LET id == existingByPath[source.sourcePath]
             IN  [ds |-> [i \in 1..Len(ds) |->
                             IF ds[i].id # id THEN ds[i]
                             ELSE IF emb # <<>> THEN StoredDocument(id, fields)
                             ELSE [StoredDocument(id, fields)
                                      EXCEPT !.embedding = ds[i].embedding,
                                             !.embedding_provider = ds[i].embedding_provider]],
                  byPath |-> (source.sourcePath :> id) @@ existingByPath,
                  outcome |-> "updated"]
        ELSE LET id == Len(ds) + 1
             IN  [ds |-> Append(ds, StoredDocument(id, fields)),
                  byPath |-> (source.sourcePath :> id) @@ existingByPath,
                  outcome |-> "added"]

\* (mutation) a known source that fails to load has its Document deleted
upsertDocumentPruning(existingByPath, source, provider, ds, e, load, resp, store) ==
    LET loaded == SnippetTable[source][load]
        snippet == loaded.snippet
        emb == IF provider # NoProvider THEN computeEmbedding(e, snippet, provider, resp) ELSE <<>>
        fields == DocumentFields(source, snippet, emb, provider)
        known == source.sourcePath \in DOMAIN existingByPath
    IN  IF loaded.threw
        THEN [ds |-> IF known
                     THEN SelectSeq(ds, LAMBDA d : d.id # existingByPath[source.sourcePath])
                     ELSE ds,
              byPath |-> existingByPath, outcome |-> "failed"]
        ELSE IF Trim(snippet) = <<>>
        THEN [ds |-> ds, byPath |-> existingByPath, outcome |-> "empty"]
        ELSE IF store # "ok"
        THEN [ds |-> ds, byPath |-> existingByPath, outcome |-> "failed"]
        ELSE IF known
        THEN LET id == existingByPath[source.sourcePath]
             IN  [ds |-> [i \in 1..Len(ds) |->
                             IF ds[i].id = id THEN StoredDocument(id, fields) ELSE ds[i]],
                  byPath |-> (source.sourcePath :> id) @@ existingByPath,
                  outcome |-> "updated"]
        ELSE LET id == Len(ds) + 1
             IN  [ds |-> Append(ds, StoredDocument(id, fields)),
                  byPath |-> (source.sourcePath :> id) @@ existingByPath,
                  outcome |-> "added"]

\* upsertDocument(existingByPath, source, provider) on the store ds.
\* load: "ok", "ioerror" (the read or fetch throws) or "unparsable";
\* resp: what an embedding request ends in; store: "ok", "error" (the write
\* returns errors) or "throw".
\* outcome: "added", "updated", "empty" ('skipped', nothing to write) and
\* "failed" ('skipped' after a store error, or an exception the caller catches)
upsertDocument(existingByPath, source, provider, ds, e, load, resp, store) ==
    LET loaded == SnippetTable[source][load]
        snippet == loaded.snippet
        emb == IF provider # NoProvider THEN computeEmbedding(e, snippet, provider, resp) ELSE <<>>
        fields == DocumentFields(source, snippet, emb, provider)
        known == source.sourcePath \in DOMAIN existingByPath
    IN  IF loaded.threw
        THEN [ds |-> ds, byPath |-> existingByPath, outcome |-> "failed"]
        ELSE IF Trim(snippet) = <<>>
        THEN [ds |-> ds, byPath |-> existingByPath, outcome |-> "empty"]
        ELSE IF store # "ok"
        THEN [ds |-> ds, byPath |-> existingByPath, outcome |-> "failed"]
        ELSE IF known
        THEN LET id == existingByPath[source.sourcePath]
             IN  [ds |-> [i \in 1..Len(ds) |->
                             IF ds[i].id = id THEN StoredDocument(id, fields) ELSE ds[i]],
                  byPath |-> (source.sourcePath :> id) @@ existingByPath,
                  outcome |-> "updated"]
        ELSE LET id == Len(ds) + 1
             IN  [ds |-> Append(ds, StoredDocument(id, fields)),
                  byPath |-> (source.sourcePath :> id) @@ existingByPath,
                  outcome |-> "added"]

----------------------------------------------------------------------------------------------------------------------------------------------------
(* Retrieval: retrieveContext, src/amplify/functions/chat/handler.ts *)

QUERY_EMBED_CAP == 1000

\* s.split(/\W+/).filter(Boolean): the maximal runs of word characters
RECURSIVE WordRuns(_, _)
WordRuns(s, cur) ==
    IF s = <<>> THEN IF cur = <<>> THEN <<>> ELSE <<cur>>
    ELSE IF IsWordChar(Head(s)) THEN WordRuns(Tail(s), Append(cur, Head(s)))
    ELSE IF cur = <<>> THEN WordRuns(Tail(s), <<>>)
    ELSE <<cur>> \o WordRuns(Tail(s), <<>>)

\* (query || '').toLowerCase().split(/\W+/).filter(Boolean)
QueryTokens(query) == WordRuns(ToLower(OrEmpty(query)), <<>>)

\* (mutation) the text is searched as stored, not lowercased
KeywordScoreCaseSensitive(d, q) ==
    Cardinality({i \in 1..Len(q) : Includes(OrEmpty(d.text), q[i])})

\* the fallback score of Document d for the tokens q
KeywordScore(d, q) ==
    Cardinality({i \in 1..Len(q) : Includes(ToLower(OrEmpty(d.text)), q[i])})

\* (mutation) the listing is not filtered by topic
CandidatesOfAnyTopic(ds, topic, listErr) ==
    IF listErr THEN <<>> ELSE [i \in 1..Len(ds) |-> i]

\* the candidates, as positions in the store's listing: Document.list with the
\* filter topic eq topic, or without a filter; listErr: the listing returns errors
Candidates(ds, topic, listErr) ==
    IF listErr THEN <<>>
    ELSE IF ~Falsy(topic)
    THEN SelectSeq([i \in 1..Len(ds) |-> i], LAMBDA i : ds[i].topic = topic)
    ELSE [i \in 1..Len(ds) |-> i]

\* (mutation) every candidate is ranked by embedding
EmbeddingCandidatesUnfiltered(ds, candidates, provider) == candidates

\* (mutation) every candidate with an embedding, whatever its provider
EmbeddingCandidatesOfAnyProvider(ds, candidates, provider) ==
    SelectSeq(candidates, LAMBDA i : ds[i].embedding # <<>>)

\* candidates.filter(d => d.embedding && d.embedding_provider === provider)
EmbeddingCandidates(ds, candidates, provider) ==
    SelectSeq(candidates, LAMBDA i : ds[i].embedding # <<>> /\ ds[i].embedding_provider = provider)

\* (mutation) the query is embedded before the candidates are looked at
EmbedsQueryAlways(query, embCandidates) == ~Falsy(query)

\* whether computeEmbedding is invoked for the query
EmbedsQuery(query, embCandidates) == ~Falsy(query) /\ embCandidates # <<>>

\* scored.sort((a, b) => b.score - a.score): Array.prototype.sort is stable
RECURSIVE InsertByScore(_, _)
InsertByScore(sorted, x) ==
    IF sorted = <<>> THEN <<x>>
    ELSE IF ScoreLess(Head(sorted).score, x.score) THEN <<x>> \o sorted
    ELSE <<Head(sorted)>> \o InsertByScore(Tail(sorted), x)

RECURSIVE SortByScoreDesc(_)
SortByScoreDesc(scored) ==
    IF scored = <<>> THEN <<>>
    ELSE InsertByScore(SortByScoreDesc(SubSeq(scored, 1, Len(scored) - 1)), scored[Len(scored)])

\* retrieveContext(topic, query, k, provider) on the store ds; resp: what the
\* embedding request for the query, if sent, ends in.
\* picked: the positions in the listing of the Documents returned; scores:
\* their scores; asked: computeEmbedding was invoked; called: a request went
\* to a backend; compared: the (Document provider, query provider) pairs of
\* the embeddings cosine was given
retrieveContext(ds, e, topic, query, k, provider, listErr, resp) ==
    LET candidates == Candidates(ds, topic, listErr)
        embCandidates == EmbeddingCandidates(ds, candidates, provider)
        asked == EmbedsQuery(query, embCandidates)
        qEmb == IF asked
                THEN computeEmbedding(e, SliceTo(OrEmpty(query), QUERY_EMBED_CAP), provider, resp)
                ELSE <<>>
        q == QueryTokens(query)
        scored == IF qEmb # <<>>
                  THEN [i \in 1..Len(embCandidates) |->
                          [d |-> embCandidates[i],
                           score |-> cosine(qEmb, <<JsonParse(ds[embCandidates[i]].embedding)>>)]]
                  ELSE [i \in 1..Len(candidates) |->
                          [d |-> candidates[i],
                           score |-> IntScore(KeywordScore(ds[candidates[i]], q))]]
        top == SliceTo(SortByScoreDesc(scored), k)
    IN  [mode |-> IF qEmb # <<>> THEN "embedding" ELSE "keyword",
         topic |-> topic, query |-> query, k |-> k, provider |-> provider,
         listed |-> ~listErr,
         picked |-> [i \in 1..Len(top) |-> top[i].d],
         scores |-> [i \in 1..Len(top) |-> top[i].score],
         texts |-> [i \in 1..Len(top) |-> ds[top[i].d].text],
         asked |-> asked,
         called |-> asked /\ CallsBackend(e, provider),
         qEmb |-> qEmb,
         compared |-> IF qEmb # <<>>
                      THEN {<<ds[embCandidates[i]].embedding_provider, provider>>
                               : i \in 1..Len(embCandidates)}
                      ELSE {}]

----
(* State *)

VARIABLES
    env,        \* the deployment's configuration, fixed
    localFiles, \* the names (relative to LOCAL_DOCS_DIR) of the local files present
    s3Keys,     \* the keys of the objects present in the bucket
    docs,       \* the Document store, in listing order
    appConfigs, \* the AppConfig store, in listing order
    runs,       \* the handler invocations: per slot, the invocation in progress or the last result
    retrieved,  \* the retrieveContext call made, its arguments and its result
    applied     \* the application of a text function: the function, its arguments, its result

vars == <<env, localFiles, s3Keys, docs, appConfigs, runs, retrieved, applied>>

RunIds == {1, 2}

\* The record of an invocation of the documents handler: its position
\* (phase), the field requested (kind), its arguments (topic, arg), its local
\* variables and the result it returns (ok, message, total; provider for
\* getLlmProvider; topics for documentsTopics). named is the provider
\* interpolated into the message, listing how the invocation's read of the
\* store ended, existing the id of the AppConfig record that
\* setConfiguredProvider found (0: none).
\* before is history kept with a run: "clean" or "dirty" when the invocation
\* right before it was the same request (field, topic) and returned ok, "dirty" when a source of that run failed; "none" otherwise
NoRun ==
    [phase |-> "idle", kind |-> "none", topic |-> Null, provider |-> NoProvider,
     sources |-> <<>>, byPath |-> <<>>, existingLen |-> 0, added |-> 0, updated |-> 0,
     outcomes |-> <<>>, ok |-> FALSE, message |-> "none", total |-> 0, before |-> "none",
     arg |-> NoProvider, named |-> NoProvider, listing |-> "none", existing |-> 0,
     topics |-> <<>>]

InitialStores == {<<>>, <<LegacyDocument>>}

NoRetrieval ==
    [mode |-> "none", topic |-> Null, query |-> Null, k |-> 0, provider |-> NoProvider,
     listed |-> FALSE, picked |-> <<>>, scores |-> <<>>, texts |-> <<>>, asked |-> FALSE,
     called |-> FALSE, qEmb |-> <<>>, compared |-> {}]

\* no text function applied: the value of applied in the specifications of
\* the handlers
NotApplied == [fn |-> "none", done |-> TRUE]

Init ==
    /\ env \in EnvConfigs
    /\ localFiles = LocalRels
    /\ s3Keys = IF env.bucket THEN S3CorpusKeys ELSE {}
    /\ docs \in InitialStores
    /\ appConfigs = <<>>
    /\ retrieved = NoRetrieval
    /\ applied = NotApplied
    /\ runs = [r \in RunIds |-> NoRun]

----------------------------------------------------------------------------
(* Provider configuration *)

\* (mutation) getConfiguredProvider without the read of AppConfig
getConfiguredProviderDefault(configs, e, listErr) == DEFAULT_PROVIDER(e)

\* getConfiguredProvider(), listErr: AppConfig.list returns errors
getConfiguredProvider(configs, e, listErr) ==
    LET global == SelectSeq(configs, LAMBDA c : c.key = "global")
    IN  IF listErr THEN DEFAULT_PROVIDER(e)
        ELSE IF global # <<>> /\ global[1].provider \in ALLOWED_PROVIDERS THEN global[1].provider
        ELSE DEFAULT_PROVIDER(e)

\* the result records of setConfiguredProvider; named is the provider that
\* the message interpolates
ProviderResult(ok, message, named) ==
    [ok |-> ok, message |-> message, total |-> IF ok THEN 1 ELSE 0, named |-> named]

\* the AppConfig records that AppConfig.list({ key: { eq: 'global' } }) returns
GlobalConfigs(configs) == SelectSeq(configs, LAMBDA c : c.key = "global")

\* AppConfig.update({ id, key: 'global', provider })
UpdateConfig(configs, id, provider) ==
    [i \in 1..Len(configs) |->
        IF configs[i].id = id THEN [id |-> id, key |-> "global", provider |-> provider]
        ELSE configs[i]]

\* AppConfig.create({ key: 'global', provider })
CreateConfig(configs, provider) ==
    Append(configs, [id |-> Len(configs) + 1, key |-> "global", provider |-> provider])

\* (mutation) setConfiguredProvider without the allow-list check
setConfiguredProviderUnchecked(configs, provider, listErr, writeErr) ==
    LET global == GlobalConfigs(configs)
    IN  IF listErr
        THEN [configs |-> configs, result |-> ProviderResult(FALSE, "Failed to load config", NoProvider)]
        ELSE IF writeErr
        THEN [configs |-> configs, result |-> ProviderResult(FALSE, "Failed to save provider", NoProvider)]
        ELSE [configs |-> IF global # <<>> THEN UpdateConfig(configs, global[1].id, provider)
                          ELSE CreateConfig(configs, provider),
              result |-> ProviderResult(TRUE, "Provider set", provider)]

\* setConfiguredProvider(provider): [configs, result]
setConfiguredProvider(configs, provider, listErr, writeErr) ==
    LET global == GlobalConfigs(configs)
    IN  IF provider \notin ALLOWED_PROVIDERS
        THEN [configs |-> configs, result |-> ProviderResult(FALSE, "Invalid provider", provider)]
        ELSE IF listErr
        THEN [configs |-> configs, result |-> ProviderResult(FALSE, "Failed to load config", NoProvider)]
        ELSE IF global # <<>>
        THEN IF writeErr
             THEN [configs |-> configs, result |-> ProviderResult(FALSE, "Failed to update provider", NoProvider)]
             ELSE [configs |-> UpdateConfig(configs, global[1].id, provider),
                   result |-> ProviderResult(TRUE, "Provider set", provider)]
        ELSE IF writeErr
             THEN [configs |-> configs, result |-> ProviderResult(FALSE, "Failed to save provider", NoProvider)]
             ELSE [configs |-> CreateConfig(configs, provider),
                   result |-> ProviderResult(TRUE, "Provider set", provider)]

\* the provider arguments tried: the allow-list and one name outside it
ProviderInputs == ALLOWED_PROVIDERS \cup {"azure"}

\* handler, field setLlmProvider
SetLlmProvider(r, p) ==
    /\ \A q \in RunIds : runs[q].phase # "running"
    /\ \E res \in {setConfiguredProvider(appConfigs, p, listErr, writeErr) :
                       listErr \in BOOLEAN, writeErr \in BOOLEAN} :
         /\ appConfigs' = res.configs
         /\ runs' = [runs EXCEPT ![r] =
                        [NoRun EXCEPT !.phase = "done", !.kind = "setLlmProvider",
                                      !.arg = p, !.named = res.result.named,
                                      !.ok = res.result.ok, !.message = res.result.message,
                                      !.total = res.result.total]]
    /\ UNCHANGED <<env, localFiles, s3Keys, docs, retrieved, applied>>

\* the ways an AppConfig.list or Document.list request can end: with data, or
\* with errors in the result
StoreListings == {"ok", "errors"}

\* handler, field getLlmProvider
GetLlmProvider(r) ==
    /\ \A q \in RunIds : runs[q].phase # "running"
    /\ \E listing \in StoreListings :
         runs' = [runs EXCEPT ![r] =
                     [NoRun EXCEPT !.phase = "done", !.kind = "getLlmProvider", !.listing = listing,
                                   !.provider = getConfiguredProvider(appConfigs, env, listing = "errors")]]
    /\ UNCHANGED <<env, localFiles, s3Keys, docs, appConfigs, retrieved, applied>>

----------------------------------------------------------------------------
(* Ingestion runs *)

\* the outcomes of the PutObject requests of one ensureS3TopicFolders call:
\* the placeholder keys written
PutOutcomes == {{}, KeepKeys}

\* ensureS3TopicFolders(): puts are the placeholder keys whose PutObject succeeds
ensureS3TopicFolders(e, keys, puts) == IF e.bucket THEN keys \cup puts ELSE keys

\* history: what a run of the request (kind, topic) records about the
\* invocation in record run
BeforeOf(run, kind, topic) ==
    IF run.phase = "done" /\ run.ok /\ run.kind = kind /\ run.topic = topic
    THEN IF \E i \in 1..Len(run.outcomes) : run.outcomes[i] = "failed" THEN "dirty" ELSE "clean"
    ELSE "none"

\* (mutation) the total counts the updated Documents as well
FinishedCountingUpdates(run) ==
    [run EXCEPT !.phase = "done", !.ok = TRUE, !.message = "done",
                !.total = run.existingLen + run.added + run.updated]

\* (mutation) a failed source makes the run fail
FinishedFailing(run) ==
    [run EXCEPT !.phase = "done",
                !.ok = \A i \in 1..Len(run.outcomes) : run.outcomes[i] # "failed",
                !.message = "done", !.total = run.existingLen + run.added]

\* the run record when the loop over the sources ends
Finished(run) ==
    [run EXCEPT !.phase = "done", !.ok = TRUE, !.message = "done",
                !.total = run.existingLen + run.added]

\* importTopic(topic, provider) up to the loop over the sources
importTopic(r, topic, provider, keys, listing) ==
    LET sources == LocalSourcesOf(topic, localFiles) \o S3SourcesOf(topic, env, keys)
        base == [NoRun EXCEPT !.kind = "import", !.topic = topic, !.provider = provider,
                              !.before = BeforeOf(runs[r], "import", topic)]
    IN  /\ s3Keys' = keys
        /\ IF env.bucket /\ listing = "throw"
           THEN runs' = [runs EXCEPT ![r] = [base EXCEPT !.phase = "done", !.message = "exception"]]
           ELSE IF sources = <<>>
           THEN runs' = [runs EXCEPT ![r] = [base EXCEPT !.phase = "done", !.message = "No files found"]]
           ELSE runs' = [runs EXCEPT ![r] = [base EXCEPT !.phase = "running", !.sources = sources,
                                                         !.byPath = BuildExistingByPath(docs),
                                                         !.existingLen = Len(docs)]]

\* preprocess(provider) up to the loop over the sources
preprocess(r, provider, keys, listing) ==
    LET sources == LocalSourcesOf(Null, localFiles) \o S3SourcesOf(Null, env, keys)
        base == [NoRun EXCEPT !.kind = "preprocess", !.provider = provider,
                              !.before = BeforeOf(runs[r], "preprocess", Null),
                              !.existingLen = Len(docs)]
    IN  /\ s3Keys' = keys
        /\ IF env.bucket /\ listing = "throw"
           THEN runs' = [runs EXCEPT ![r] = [base EXCEPT !.phase = "done", !.message = "exception"]]
           ELSE IF sources = <<>>
           THEN runs' = [runs EXCEPT ![r] = Finished(base)]
           ELSE runs' = [runs EXCEPT ![r] = [base EXCEPT !.phase = "running", !.sources = sources,
                                                         !.byPath = BuildExistingByPath(docs)]]

\* the ways the ListObjectsV2 request of collectS3Sources can end (no request
\* is made without a bucket)
ListingOutcomes(e) == IF e.bucket THEN {"ok", "throw"} ELSE {"ok"}

\* handler, field documentsImportTopic: the provider is read first
StartImport(r, topic) ==
    /\ \A q \in RunIds : runs[q].phase # "running"
    /\ \E provider \in {getConfiguredProvider(appConfigs, env, listErr) : listErr \in BOOLEAN},
          keys \in {ensureS3TopicFolders(env, s3Keys, puts) : puts \in PutOutcomes},
          listing \in ListingOutcomes(env) :
         importTopic(r, topic, provider, keys, listing)
    /\ UNCHANGED <<env, localFiles, docs, appConfigs, retrieved, applied>>

\* handler, field documentsPreprocess
StartPreprocess(r) ==
    /\ \A q \in RunIds : runs[q].phase # "running"
    /\ \E provider \in {getConfiguredProvider(appConfigs, env, listErr) : listErr \in BOOLEAN},
          keys \in {ensureS3TopicFolders(env, s3Keys, puts) : puts \in PutOutcomes},
          listing \in ListingOutcomes(env) :
         preprocess(r, provider, keys, listing)
    /\ UNCHANGED <<env, localFiles, docs, appConfigs, retrieved, applied>>

\* the ways a Document.create or Document.update request can end
StoreOutcomes == {"ok", "error", "throw"}

\* one iteration of the loop over the sources, with its try/catch and counters;
\* the iteration for the last source also returns the run's result
UpsertStep(r) ==
    /\ runs[r].phase = "running"
    /\ LET run == runs[r]
           source == run.sources[Len(run.outcomes) + 1]
       IN  \E res \in {upsertDocument(run.byPath, source, run.provider, docs, env,
                                       load, resp, store) :
                           load \in LoadOutcomes(source), resp \in BackendResponses,
                           store \in StoreOutcomes} :
             LET stepped == [run EXCEPT !.byPath = res.byPath,
                                        !.added = IF res.outcome = "added" THEN @ + 1 ELSE @,
                                        !.updated = IF res.outcome = "updated" THEN @ + 1 ELSE @,
                                        !.outcomes = Append(@, res.outcome)]
             IN  /\ docs' = res.ds
                 /\ runs' = [runs EXCEPT ![r] =
                                IF Len(stepped.outcomes) = Len(run.sources) THEN Finished(stepped) ELSE stepped]
    /\ UNCHANGED <<env, localFiles, s3Keys, appConfigs, retrieved, applied>>

----------------------------------------------------------------------------
(* Topics *)

\* Array.from(new Set(seq)): the elements of seq, each once, in the order of
\* their first occurrence
RECURSIVE ArrayFromSet(_)
ArrayFromSet(seq) ==
    IF seq = <<>> THEN <<>>
    ELSE LET front == ArrayFromSet(SubSeq(seq, 1, Len(seq) - 1))
             last == seq[Len(seq)]
         IN  IF \E i \in 1..Len(front) : front[i] = last THEN front ELSE Append(front, last)

\* (mutation) getTopics without filter(Boolean)
getTopicsUnfiltered(ds, listing) ==
    IF listing = "errors" THEN DEFAULT_TOPICS
    ELSE ArrayFromSet(DEFAULT_TOPICS \o ArrayFromSet([i \in 1..Len(ds) |-> ds[i].topic]))

\* getTopics(), listing: how Document.list ended
getTopics(ds, listing) ==
    IF listing = "errors" THEN DEFAULT_TOPICS
    ELSE LET discovered == ArrayFromSet(SelectSeq([i \in 1..Len(ds) |-> ds[i].topic],
                                                  LAMBDA topic : ~Falsy(topic)))
         IN  ArrayFromSet(DEFAULT_TOPICS \o discovered)

\* handler, field documentsTopics
GetTopics(r) ==
    /\ \A q \in RunIds : runs[q].phase # "running"
    /\ \E listing \in StoreListings :
         runs' = [runs EXCEPT ![r] =
                     [NoRun EXCEPT !.phase = "done", !.kind = "documentsTopics", !.listing = listing,
                                   !.topics = getTopics(docs, listing)]]
    /\ UNCHANGED <<env, localFiles, s3Keys, docs, appConfigs, retrieved, applied>>

----------------------------------------------------------------------------
(* Specification: one invocation at a time *)

Next ==
    \/ \E t \in ImportTopics : StartImport(1, t)
    \/ StartPreprocess(1)
    \/ UpsertStep(1)
    \/ \E p \in ProviderInputs : SetLlmProvider(1, p)
    \/ GetLlmProvider(1)
    \/ GetTopics(1)

Spec == Init /\ [][Next]_vars

----------------------------------------------------------------------------
(* Specification SpecSync: one run of the synchronizer over a given list  *)
(* of sources, against a given store                                      *)

MaxSources == 2

SyncSourceLists == UNION {[1..n -> SyncSourcePool] : n \in 1..MaxSources}

InitSync ==
    /\ env \in {e \in EnvConfigs : e.bucket}
    /\ localFiles = LocalRels
    /\ s3Keys = AllS3Keys
    /\ docs \in InitialStores
    /\ appConfigs = <<>>
    /\ retrieved = NoRetrieval
    /\ applied = NotApplied
    /\ \E sources \in SyncSourceLists, provider \in ALLOWED_PROVIDERS :
         runs = [r \in RunIds |->
                   IF r = 1
                   THEN [NoRun EXCEPT !.phase = "running", !.kind = "preprocess",
                                      !.provider = provider, !.sources = sources,
                                      !.byPath = BuildExistingByPath(docs),
                                      !.existingLen = Len(docs)]
                   ELSE NoRun]

NextSync == UpsertStep(1)

SpecSync == InitSync /\ [][NextSync]_vars

----------------------------------------------------------------------------------------------------------------------------------------------------
(* Specification SpecRetrieve: one retrieveContext call against a given   *)
(* store                                                                  *)

MaxK == 2

\* The Documents of the stores: their display name, path, topic and text
RetrievalFiles ==
    << [filename |-> <<"f","o","r","e","n","s","i","c","s","/","x",".","t","x","t">>,
        path |-> <<"/","l","/","f","o","r","e","n","s","i","c","s","/","x",".","t","x","t">>,
        topic |-> FORENSICS, text |-> <<"x","b">>],
       [filename |-> <<"f","o","r","e","n","s","i","c","s","/","y",".","t","x","t">>,
        path |-> <<"/","l","/","f","o","r","e","n","s","i","c","s","/","y",".","t","x","t">>,
        topic |-> FORENSICS, text |-> <<"B"," ","a">>],
       [filename |-> <<"d","e","s","i","g","n","e","r","_","g","e","n","e","s","/","z",".","t","x","t">>,
        path |-> <<"/","l","/","d","e","s","i","g","n","e","r","_","g","e","n","e","s","/","z",".","t","x","t">>,
        topic |-> DESIGNER_GENES, text |-> <<"a","b">>] >>

\* how a Document of a store came to its embedding: written without one,
\* written under a provider, or ("stale") written under openai by an earlier
\* model of another dimension
EmbeddingVariants(i) ==
    IF i = 1 THEN {"none", "openai", "google", "stale"} ELSE {"none", "openai", "google"}

\* the Document upsertDocument stores for file i
RetrievalDocument(i, variant) ==
    LET f == RetrievalFiles[i]
        emb == IF variant = "none" THEN <<>>
               ELSE IF variant = "stale" THEN <<LegacyDocument.embedding>>
               ELSE <<JsonStringify(ModelVector(variant, f.text))>>
    IN  [id |-> i, filename |-> f.filename, path |-> f.path, topic |-> f.topic, text |-> f.text,
         embedding |-> IF emb = <<>> THEN <<>> ELSE emb[1],
         embedding_provider |-> IF variant = "none" THEN NoProvider
                                ELSE IF variant = "stale" THEN "openai" ELSE variant]

RetrievalStores ==
    UNION {{[i \in 1..n |-> RetrievalDocument(i, v[i])]
              : v \in {w \in [1..n -> {"none", "openai", "google", "stale"}] :
                         \A i \in 1..n : w[i] \in EmbeddingVariants(i)}}
             : n \in 0..Len(RetrievalFiles)}

\* the arguments tried: no topic, the empty topic, two topics; no query, the
\* empty query, two queries; k up to MaxK
RetrievalTopics == {Null, <<>>, FORENSICS, DESIGNER_GENES}

RetrievalQueries == {Null, <<>>, <<"A","-","b","!">>, <<"x">>}

InitRetrieve ==
    /\ env \in EnvConfigs
    /\ localFiles = LocalRels
    /\ s3Keys = IF env.bucket THEN S3CorpusKeys ELSE {}
    /\ docs \in RetrievalStores
    /\ appConfigs = <<>>
    /\ runs = [r \in RunIds |-> NoRun]
    /\ retrieved = NoRetrieval
    /\ applied = NotApplied

\* chat handler: retrieveContext(topic, userQuery, k, provider)
Retrieve ==
    /\ retrieved.mode = "none"
    /\ \E topic \in RetrievalTopics, query \in RetrievalQueries, k \in 0..MaxK,
          provider \in ALLOWED_PROVIDERS, listErr \in BOOLEAN, resp \in BackendResponses :
         retrieved' = retrieveContext(docs, env, topic, query, k, provider, listErr, resp)
    /\ UNCHANGED <<env, localFiles, s3Keys, docs, appConfigs, runs, applied>>

NextRetrieve == Retrieve

SpecRetrieve == InitRetrieve /\ [][NextRetrieve]_vars

----
(* Properties of the corpus synchronizer *)

SamePathPairs(run) ==
    {p \in (1..Len(run.sources)) \X (1..Len(run.sources)) :
        /\ p[1] < p[2]
        /\ run.sources[p[1]].sourcePath = run.sources[p[2]].sourcePath
        /\ run.sources[p[1]].filename # run.sources[p[2]].filename
        /\ \A k \in 1..(p[1] - 1) : run.sources[k].sourcePath # run.sources[p[1]].sourcePath
        /\ \A d \in 1..run.existingLen :
              resolveExistingPathKey(docs[d].path) # run.sources[p[1]].sourcePath}

\* C3 (as the specification states it): in one run, of two descriptors with
\* the same sourcePath and different filenames, the path not stored yet, the
\* first is counted as added and the second as updated, and exactly one
\* Document has that path.
C3_SamePathAddedThenUpdated ==
    LET run == runs[1]
    IN  run.phase = "done" =>
          \A p \in SamePathPairs(run) :
             /\ run.outcomes[p[1]] = "added"
             /\ run.outcomes[p[2]] = "updated"
             /\ Cardinality({d \in 1..Len(docs) : docs[d].path = run.sources[p[1]].sourcePath}) = 1

\* C3 (amended): in one run, of two descriptors with the same sourcePath and
\* different filenames, the path not stored yet, at most one Document gets
\* that path; when the text is not blank and neither descriptor fails, the
\* first is counted as added and the second as updated, and exactly one
\* Document has that path.
C3_SamePathNeverDuplicated ==
    LET run == runs[1]
    IN  run.phase = "done" =>
          \A p \in SamePathPairs(run) :
             LET path == run.sources[p[1]].sourcePath
                 stored == {d \in 1..Len(docs) : docs[d].path = path}
             IN  /\ Cardinality(stored) <= 1
                 /\ {run.outcomes[p[1]], run.outcomes[p[2]]} \cap {"failed", "empty"} = {}
                    => /\ run.outcomes[p[1]] = "added"
                       /\ run.outcomes[p[2]] = "updated"
                       /\ Cardinality(stored) = 1

\* a finished run whose first descriptor was added and whose second, of the
\* same path under another name, updated the Document
C3_Witness ==
    LET run == runs[1]
    IN  /\ run.phase = "done"
        /\ \E p \in SamePathPairs(run) :
              /\ run.outcomes[p[1]] = "added" /\ run.outcomes[p[2]] = "updated"
              /\ \E d \in 1..Len(docs) : docs[d].filename = run.sources[p[2]].filename

\* C4: a Document written by a step of a run has a non-empty serialized
\* embedding exactly when its embedding_provider is set, and that provider
\* is the provider of the run.
C4_EmbeddingPairedWithProvider ==
    [][LET run == runs[1]
           source == run.sources[Len(run.outcomes) + 1]
       IN  run.phase = "running" /\ runs'[1].outcomes[Len(run.outcomes) + 1] \in {"added", "updated"}
           => /\ \E d \in 1..Len(docs') : docs'[d].path = source.sourcePath
              /\ \A d \in 1..Len(docs') :
                    docs'[d].path = source.sourcePath
                    => /\ docs'[d].embedding # <<>> <=> docs'[d].embedding_provider # NoProvider
                       /\ docs'[d].embedding # <<>>
                          => /\ docs'[d].embedding = JsonStringify(JsonParse(docs'[d].embedding))
                             /\ docs'[d].embedding_provider = run.provider]_vars

\* a run under a provider wrote one Document with an embedding and one without
C4_Witness ==
    LET run == runs[1]
    IN  /\ run.phase = "done" /\ run.provider # NoProvider /\ run.added = 2
        /\ \E d \in 1..Len(docs) :
              docs[d].embedding # <<>> /\ docs[d].embedding_provider = run.provider
        /\ \E d \in 1..Len(docs) :
              docs[d].embedding = <<>> /\ docs[d].embedding_provider = NoProvider

\* C5: a step on a source whose extracted text is empty or only white space
\* writes nothing to the store and counts the source as neither added nor
\* updated.
C5_BlankSourceWritesNothing ==
    [][LET run == runs[1]
           source == run.sources[Len(run.outcomes) + 1]
           text == extractTextFromBuffer(SourceContent(source), source.ext, TRUE).text
       IN  run.phase = "running" /\ Trim(text) = <<>>
           => /\ docs' = docs
              /\ runs'[1].added = run.added
              /\ runs'[1].updated = run.updated
              /\ runs'[1].outcomes[Len(run.outcomes) + 1] \notin {"added", "updated"}]_vars

\* a finished run that skipped a blank source and added the source after it
C5_Witness ==
    LET run == runs[1]
    IN  /\ run.phase = "done" /\ Len(run.sources) = 2
        /\ Trim(sanitizeText(SourceContent(run.sources[1]))) = <<>>
        /\ run.outcomes = <<"empty", "added">>

\* C6: a step whose source fails leaves the counters and the in-run lookup as
\* they were; the sources after it are processed all the same, and the run
\* ends with ok = true.
C6_FailedSourceIsSkipped ==
    [][LET run == runs[1]
           n == Len(run.outcomes)
       IN  /\ run.phase = "running" /\ Len(runs'[1].outcomes) = n + 1
           /\ runs'[1].outcomes[n + 1] = "failed"
           => /\ runs'[1].added = run.added
              /\ runs'[1].updated = run.updated
              /\ runs'[1].byPath = run.byPath
              /\ docs' = docs
              /\ runs'[1].sources = run.sources
              /\ IF n + 1 < Len(run.sources)
                 THEN runs'[1].phase = "running"
                 ELSE runs'[1].phase = "done" /\ runs'[1].ok]_vars

\* a finished run, ok, whose first source failed and which added a later source
C6_Witness ==
    LET run == runs[1]
    IN  /\ run.phase = "done" /\ run.ok /\ Len(run.outcomes) >= 2
        /\ run.outcomes[1] = "failed"
        /\ \E i \in 2..Len(run.outcomes) : run.outcomes[i] = "added"

----------------------------------------------------------------------------
(* Properties of the retriever *)

\* C7: when no candidate (a Document of the topic, or any Document when no
\* topic is given) has a non-empty embedding tagged with the requested
\* provider, the call does not invoke computeEmbedding, sends no request to
\* an embedding backend, and returns the candidates of the highest
\* token-overlap counts, in non-increasing order of that count.
C7_NoMatchingEmbeddingNoBackendCall ==
    LET r == retrieved
        cand == {d \in 1..Len(docs) : r.listed /\ (Falsy(r.topic) \/ docs[d].topic = r.topic)}
        matching == {d \in cand : docs[d].embedding # <<>> /\ docs[d].embedding_provider = r.provider}
        tokens == QueryTokens(r.query)
        overlap(d) == Cardinality({i \in 1..Len(tokens) : Includes(ToLower(docs[d].text), tokens[i])})
        returned == {r.picked[i] : i \in 1..Len(r.picked)}
    IN  r.mode # "none" /\ matching = {}
        => /\ ~r.asked /\ ~r.called
           /\ Len(r.picked) = Min(r.k, Cardinality(cand))
           /\ Cardinality(returned) = Len(r.picked)
           /\ returned \subseteq cand
           /\ \A i \in 1..Len(r.picked) : r.scores[i] = IntScore(overlap(r.picked[i]))
           /\ \A i \in 1..(Len(r.picked) - 1) : overlap(r.picked[i]) >= overlap(r.picked[i + 1])
           /\ \A d \in cand \ returned, i \in 1..Len(r.picked) : overlap(d) <= overlap(r.picked[i])

\* a call with a query, under a provider whose backend could be asked, over
\* candidates whose embeddings are all of other providers, that returned two texts
C7_Witness ==
    LET r == retrieved
        cand == {d \in 1..Len(docs) : r.listed /\ (Falsy(r.topic) \/ docs[d].topic = r.topic)}
    IN  /\ r.mode = "keyword" /\ ~Falsy(r.query) /\ CallsBackend(env, r.provider)
        /\ \A d \in cand : docs[d].embedding_provider # r.provider
        /\ \E d \in cand : docs[d].embedding # <<>>
        /\ Len(r.picked) = 2

\* C8: cosine is given a Document's embedding only together with a query
\* embedding computed under that Document's embedding_provider: every
\* Document ranked by its embedding is tagged with the provider of the call.
C8_CosineWithinOneProvider ==
    LET r == retrieved
    IN  r.mode # "none"
        => /\ \A pair \in r.compared : pair[1] = pair[2] /\ pair[2] = r.provider
           /\ r.mode = "embedding"
              => /\ r.qEmb = <<ModelVector(r.provider, OrEmpty(r.query))>>
                 /\ r.compared # {}
                 /\ \A i \in 1..Len(r.picked) :
                       /\ docs[r.picked[i]].embedding_provider = r.provider
                       /\ r.scores[i] = cosine(r.qEmb, <<JsonParse(docs[r.picked[i]].embedding)>>)

\* a call ranked by embeddings over a store that also holds an embedding of
\* another provider
C8_Witness ==
    LET r == retrieved
    IN  /\ r.mode = "embedding" /\ Len(r.picked) >= 1 /\ Falsy(r.topic)
        /\ \E d \in 1..Len(docs) :
              docs[d].embedding # <<>> /\ docs[d].embedding_provider # r.provider

\* C9: the call returns at most k texts; each is the text of a Document of
\* the store whose topic is the topic given (of any Document when the topic
\* is null or empty); the scores they were ranked by do not increase along
\* the list.
C9_AtMostKOfTopicInScoreOrder ==
    LET r == retrieved
        tokens == QueryTokens(r.query)
        score(d) == IF r.mode = "embedding"
                    THEN cosine(r.qEmb, <<JsonParse(docs[d].embedding)>>)
                    ELSE IntScore(Cardinality({i \in 1..Len(tokens) :
                                                  Includes(ToLower(docs[d].text), tokens[i])}))
    IN  r.mode # "none"
        => /\ Len(r.texts) <= r.k
           /\ Len(r.picked) = Len(r.texts)
           /\ \A i \in 1..Len(r.texts) :
                 /\ r.picked[i] \in 1..Len(docs)
                 /\ r.texts[i] = docs[r.picked[i]].text
                 /\ Falsy(r.topic) \/ docs[r.picked[i]].topic = r.topic
                 /\ r.scores[i] = score(r.picked[i])
           /\ \A i \in 1..(Len(r.texts) - 1) : ~ScoreLess(r.scores[i], r.scores[i + 1])

\* a call for a topic, ranked by embeddings, over a store with a Document of
\* another topic, that returned the second of two candidates only
C9_Witness ==
    LET r == retrieved
    IN  /\ r.mode = "embedding" /\ r.topic = FORENSICS /\ r.k = 1 /\ r.picked = <<2>>
        /\ Len(docs) = 3
        /\ docs[1].embedding_provider = r.provider

\* C10: when the query is empty, or its embedding is unavailable, or no
\* candidate has a matching embedding, the call returns the texts of the
\* first k candidates in the order: more lowercased query tokens occurring in
\* the lowercased text first, and the store's listing order among equals.
C10_FallbackKeywordRanking ==
    LET r == retrieved
        cand == {d \in 1..Len(docs) : r.listed /\ (Falsy(r.topic) \/ docs[d].topic = r.topic)}
        matching == {d \in cand : docs[d].embedding # <<>> /\ docs[d].embedding_provider = r.provider}
        tokens == QueryTokens(r.query)
        overlap(d) == Cardinality({i \in 1..Len(tokens) : Includes(ToLower(docs[d].text), tokens[i])})
        before(c, d) == overlap(c) > overlap(d) \/ (overlap(c) = overlap(d) /\ c < d)
        returned == {r.picked[i] : i \in 1..Len(r.picked)}
    IN  r.mode # "none" /\ (Falsy(r.query) \/ (r.asked /\ r.qEmb = <<>>) \/ matching = {})
        => /\ Len(r.picked) = Min(r.k, Cardinality(cand))
           /\ returned \subseteq cand
           /\ \A i \in 1..(Len(r.picked) - 1) : before(r.picked[i], r.picked[i + 1])
           /\ \A d \in cand \ returned, i \in 1..Len(r.picked) : before(r.picked[i], d)
           /\ r.texts = [i \in 1..Len(r.picked) |-> docs[r.picked[i]].text]

\* a call whose query embedding was asked for and not obtained, and which
\* returned the second and the third Document of the listing, equal in
\* score, ahead of the first
C10_Witness ==
    LET r == retrieved
    IN  /\ r.mode = "keyword" /\ r.asked /\ r.qEmb = <<>>
        /\ r.k = 2 /\ r.picked = <<2, 3>> /\ Len(docs) = 3

----------------------------------------------------------------------------
(* Specification SpecTopics: documentsTopics over a given store *)

MaxTopicDocs == 3

ASTRONOMY == <<"a","s","t","r","o","n","o","m","y">>

\* the topic field of a stored Document: a predefined topic, another topic,
\* the empty string, or null
StoredTopics == {FORENSICS, ASTRONOMY, <<>>, Null}

TopicStores ==
    UNION {{[i \in 1..n |-> [LegacyDocument EXCEPT !.id = i, !.topic = t[i]]]
              : t \in [1..n -> StoredTopics]} : n \in 0..MaxTopicDocs}

InitTopics ==
    /\ env \in EnvConfigs
    /\ localFiles = LocalRels
    /\ s3Keys = {}
    /\ docs \in TopicStores
    /\ appConfigs = <<>>
    /\ retrieved = NoRetrieval
    /\ applied = NotApplied
    /\ runs = [r \in RunIds |-> NoRun]

NextTopics == GetTopics(1)

SpecTopics == InitTopics /\ [][NextTopics]_vars

----------------------------------------------------------------------------
(* Specification SpecProviderRace: setLlmProvider invocations that overlap. *)
(* Each request of setConfiguredProvider to the AppConfig store is a step   *)
(* of its own; steps of the two invocations interleave in any order.        *)

\* setConfiguredProvider up to and including its AppConfig.list request
ListConfigStep(r, p) ==
    /\ runs[r].phase # "listed"
    /\ \E listing \in StoreListings :
         LET global == GlobalConfigs(appConfigs)
             call == [NoRun EXCEPT !.kind = "setLlmProvider", !.arg = p]
             invalid == setConfiguredProvider(appConfigs, p, FALSE, FALSE).result
             failed == setConfiguredProvider(appConfigs, p, TRUE, FALSE).result
         IN  runs' = [runs EXCEPT ![r] =
                IF p \notin ALLOWED_PROVIDERS
                THEN [call EXCEPT !.phase = "done", !.ok = invalid.ok, !.message = invalid.message,
                                  !.total = invalid.total, !.named = invalid.named]
                ELSE IF listing = "errors"
                THEN [call EXCEPT !.phase = "done", !.listing = listing, !.ok = failed.ok,
                                  !.message = failed.message, !.total = failed.total]
                ELSE [call EXCEPT !.phase = "listed", !.listing = listing,
                                  !.existing = IF global # <<>> THEN global[1].id ELSE 0]]
    /\ UNCHANGED <<env, localFiles, s3Keys, docs, appConfigs, retrieved, applied>>

\* setConfiguredProvider from its AppConfig.update or AppConfig.create request
\* to its return
WriteConfigStep(r) ==
    /\ runs[r].phase = "listed"
    /\ \E writeErr \in BOOLEAN :
         LET run == runs[r]
             message == IF ~writeErr THEN "Provider set"
                        ELSE IF run.existing # 0 THEN "Failed to update provider"
                        ELSE "Failed to save provider"
             result == ProviderResult(~writeErr, message, IF writeErr THEN NoProvider ELSE run.arg)
         IN  /\ appConfigs' = IF writeErr THEN appConfigs
                              ELSE IF run.existing # 0 THEN UpdateConfig(appConfigs, run.existing, run.arg)
                              ELSE CreateConfig(appConfigs, run.arg)
             /\ runs' = [runs EXCEPT ![r] =
                            [run EXCEPT !.phase = "done", !.ok = result.ok, !.message = result.message,
                                        !.total = result.total, !.named = result.named]]
    /\ UNCHANGED <<env, localFiles, s3Keys, docs, retrieved, applied>>

InitProviderRace ==
    /\ env \in EnvConfigs
    /\ localFiles = LocalRels
    /\ s3Keys = {}
    /\ docs = <<>>
    /\ appConfigs = <<>>
    /\ retrieved = NoRetrieval
    /\ applied = NotApplied
    /\ runs = [r \in RunIds |-> NoRun]

NextProviderRace ==
    \/ \E r \in RunIds, p \in ProviderInputs : ListConfigStep(r, p)
    \/ \E r \in RunIds : WriteConfigStep(r)

SpecProviderRace == InitProviderRace /\ [][NextProviderRace]_vars

----------------------------------------------------------------------------
(* Specification SpecText: one application of a text function of the      *)
(* documents handler, normalizeSchoolTeamLabel or buildSnippet, to a given *)
(* input                                                                   *)

MaxRows == 2

\* the applications of normalizeSchoolTeamLabel tried: school and team each
\* undefined, empty, blank, plain or padded; teams with and without the
\* word 'Team'
LabelInputs ==
    LET schools == {Null, <<>>, <<" ">>, <<"X">>, <<" ","L"," ","H","S"," ">>}
        teams ==
          {Null, <<>>, <<" ">>, <<"A">>, <<"T","e","a","m"," ","B">>, <<"t","e","a","m"," "," ","b">>, <<"T","E","A","M">>, <<"T","e","a","m","m","a","t","e">>, <<"T","E","A","M","\t","C">>, <<" ","B"," ">>}
    IN  {[fn |-> "normalizeSchoolTeamLabel", done |-> FALSE, school |-> school, team |-> team,
          out |-> <<>>] : school \in schools, team \in teams}

\* the file names tried, with the base name, the date and the tournament
\* that each name stands for
CsvFiles ==
    << [relName |-> <<"s","c","i","o","l","y","_","r","e","s","u","l","t","s","/","2","0","2","4","-","0","1","-","0","2","_","m","_","c",".","c","s","v">>,
        base |-> <<"2","0","2","4","-","0","1","-","0","2","_","m","_","c",".","c","s","v">>, date |-> <<"2","0","2","4","-","0","1","-","0","2">>, tournament |-> <<"m">>],
       [relName |-> <<"r",".","c","s","v">>,
        base |-> <<"r",".","c","s","v">>, date |-> <<"u","n","k","n","o","w","n","-","d","a","t","e">>, tournament |-> <<"r">>] >>

\* the tables tried: a header line, whether it names school, rank and total,
\* and data rows, each with the fields and the team label that the line
\* stands for
CsvTables ==
 << [header |-> <<"s","c","h","o","o","l",",","t","e","a","m",",","r","a","n","k",",","t","o","t","a","l",",","s","t","a","t","e",",","t","r","a","c","k">>,
      recognized |-> TRUE,
      rows |-> <<
         [line |-> <<"\"","L",","," ","H","S","\"",",","A",",","1",",","1","2","0",",","C","A",",","D">>,
          school |-> <<"L",","," ","H","S">>, label |-> <<"L",","," ","H","S"," ","T","e","a","m"," ","A">>, rank |-> <<"1">>, total |-> <<"1","2","0">>,
          state |-> <<"C","A">>, track |-> <<"D">>],
         [line |-> <<"\"","T","h","e"," ","\"","\"","O","\"","\"","\"",",","T","e","a","m"," ","B",",","2",",","9","0">>,
          school |-> <<"T","h","e"," ","\"","O","\"">>, label |-> <<"T","h","e"," ","\"","O","\""," ","T","e","a","m"," ","B">>, rank |-> <<"2">>, total |-> <<"9","0">>,
          state |-> <<>>, track |-> <<>>],
         [line |-> <<" ","X"," ",","," ",",","3",","," ","8","0"," ",",",",","V">>,
          school |-> <<"X">>, label |-> <<"X"," ","T","e","a","m"," ","U","n","s","p","e","c","i","f","i","e","d">>, rank |-> <<"3">>, total |-> <<"8","0">>,
          state |-> <<>>, track |-> <<"V">>],
         [line |-> <<",","A",",","4",",","7","0",",","C","A",",">>,
          school |-> <<>>, label |-> <<>>, rank |-> <<"4">>, total |-> <<"7","0">>,
          state |-> <<"C","A">>, track |-> <<>>],
         [line |-> <<"Y",",","C",",",",","6","0",",",",">>,
          school |-> <<"Y">>, label |-> <<"Y"," ","T","e","a","m"," ","C">>, rank |-> <<>>, total |-> <<"6","0">>,
          state |-> <<>>, track |-> <<>>],
         [line |-> <<"Z",",","C",",","5",",",",","T","X",",">>,
          school |-> <<"Z">>, label |-> <<"Z"," ","T","e","a","m"," ","C">>, rank |-> <<"5">>, total |-> <<>>,
          state |-> <<"T","X">>, track |-> <<>>] >>],
    [header |-> <<"R","a","n","k",","," ","\"","S","c","h","o","o","l","\""," ",",","T","O","T","A","L">>,
      recognized |-> TRUE,
      rows |-> <<
         [line |-> <<"7",",","\"","Q","\"",",","3","3">>,
          school |-> <<"Q">>, label |-> <<"Q"," ","T","e","a","m"," ","U","n","s","p","e","c","i","f","i","e","d">>, rank |-> <<"7">>, total |-> <<"3","3">>,
          state |-> <<>>, track |-> <<>>] >>],
    [header |-> <<"s","c","h","o","o","l",",","r","a","n","k">>,
      recognized |-> FALSE,
      rows |-> <<
         [line |-> <<"X",",","1">>,
          school |-> <<"X">>, label |-> <<"X"," ","T","e","a","m"," ","U","n","s","p","e","c","i","f","i","e","d">>, rank |-> <<"1">>, total |-> <<>>,
          state |-> <<>>, track |-> <<>>] >>],
    [header |-> <<"t","e","a","m",",","r","a","n","k",",","t","o","t","a","l">>,
      recognized |-> FALSE,
      rows |-> <<
         [line |-> <<"A",",","1",",","9">>,
          school |-> <<>>, label |-> <<>>, rank |-> <<"1">>, total |-> <<"9">>,
          state |-> <<>>, track |-> <<>>] >>],
    [header |-> <<"s","c","h","o","o","l",",","t","e","a","m",",","t","o","t","a","l">>,
      recognized |-> FALSE,
      rows |-> <<
         [line |-> <<"X",",","A",",","9">>,
          school |-> <<"X">>, label |-> <<"X"," ","T","e","a","m"," ","A">>, rank |-> <<>>, total |-> <<"9">>,
          state |-> <<>>, track |-> <<>>] >>] >>

\* the applications of buildSnippet tried.  Tables: every table of CsvTables
\* with up to MaxRows of its rows in any order, the lines separated by LF, by
\* CRLF or by LF with a blank line in between, under the reserved topic and
\* .csv and under other topics and formats.  Other texts (undefined, empty,
\* one line, a header alone, a text longer than the cap on generic text)
\* under every topic and format.  And so many rows of the first table that
\* their lines exceed the cap on tabular output.
SnippetInputs ==
    LET txt == <<".","t","x","t">>
        otherCase == <<"S","c","i","o","l","y"," ","R","e","s","u","l","t","s">>
        separators == {<<"\n">>, <<"\r","\n">>, <<"\n"," ","\n">>}
        textOf(t, rows, sep) ==
            JoinWith(<<CsvTables[t].header>>
                       \o [i \in 1..Len(rows) |-> CsvTables[t].rows[rows[i]].line], sep)
        input(topic, ext, file, t, rows, sep, text) ==
            [fn |-> "buildSnippet", done |-> FALSE, topic |-> topic, ext |-> ext, file |-> file,
             table |-> t, rows |-> rows, sep |-> sep, text |-> text, out |-> <<>>]
        tableInputs(t) ==
            {input(c[1], c[2], file, t, rows, sep, textOf(t, rows, sep))
                : c \in {<<SCIOLY_RESULTS, CSV_EXT>>, <<SCIOLY_RESULTS, txt>>, <<FORENSICS, CSV_EXT>>,
                         <<Null, CSV_EXT>>, <<otherCase, CSV_EXT>>},
                  file \in 1..Len(CsvFiles),
                  rows \in UNION {[1..n -> 1..Len(CsvTables[t].rows)] : n \in 0..MaxRows},
                  sep \in separators}
        longText == [i \in 1..(GENERIC_SNIPPET_CAP + 1) |-> "a"]
        plainTexts == {Null, <<>>, <<"a"," ","b","\n">>, CsvTables[1].header, longText}
        manyRows == [i \in 1..(TABULAR_SNIPPET_CAP \div 50) |-> 1]
    IN  UNION {tableInputs(t) : t \in 1..Len(CsvTables)}
        \cup {input(topic, ext, 1, 0, <<>>, <<"\n">>, text)
                : topic \in {SCIOLY_RESULTS, FORENSICS, Null, otherCase},
                  ext \in {CSV_EXT, txt, <<>>}, text \in plainTexts}
        \cup {input(topic, CSV_EXT, 1, 1, manyRows, <<"\n">>, textOf(1, manyRows, <<"\n">>))
                : topic \in {SCIOLY_RESULTS, FORENSICS}}

InitText ==
    /\ env \in {e \in EnvConfigs : e.bucket}
    /\ localFiles = LocalRels
    /\ s3Keys = {}
    /\ docs = <<>>
    /\ appConfigs = <<>>
    /\ retrieved = NoRetrieval
    /\ runs = [r \in RunIds |-> NoRun]
    /\ applied \in LabelInputs \cup SnippetInputs

\* normalizeSchoolTeamLabel(school, team)
ApplyLabel ==
    /\ applied.fn = "normalizeSchoolTeamLabel" /\ ~applied.done
    /\ applied' = [applied EXCEPT !.done = TRUE,
                                  !.out = normalizeSchoolTeamLabel(applied.school, applied.team)]
    /\ UNCHANGED <<env, localFiles, s3Keys, docs, appConfigs, runs, retrieved>>

\* buildSnippet(topic, text, relName, ext)
ApplySnippet ==
    /\ applied.fn = "buildSnippet" /\ ~applied.done
    /\ applied' = [applied EXCEPT !.done = TRUE,
                                  !.out = buildSnippet(applied.topic, applied.text,
                                                       CsvFiles[applied.file].relName, applied.ext)]
    /\ UNCHANGED <<env, localFiles, s3Keys, docs, appConfigs, runs, retrieved>>

NextText == ApplyLabel \/ ApplySnippet

SpecText == InitText /\ [][NextText]_vars

----------------------------------------------------------------------------
(* Properties of the provider configuration *)

\* C11: setLlmProvider(p) with p outside the allow-list returns ok = false
\* with the message 'Invalid provider: p', writes nothing to the AppConfig
\* store, and getLlmProvider answers after the call what it answered before
\* (whether or not its read of the store succeeds).
C11_InvalidProviderRejected ==
    [][LET reply == runs'[1]
       IN  reply.kind = "setLlmProvider" /\ reply.arg \notin ALLOWED_PROVIDERS
           => /\ ~reply.ok /\ reply.total = 0
              /\ reply.message = "Invalid provider" /\ reply.named = reply.arg
              /\ appConfigs' = appConfigs
              /\ \A listErr \in BOOLEAN :
                    getConfiguredProvider(appConfigs', env', listErr)
                       = getConfiguredProvider(appConfigs, env, listErr)]_vars

\* setLlmProvider of a provider outside the allow-list, refused while a record
\* of an earlier, successful call is stored
C11_Witness ==
    /\ runs[1].kind = "setLlmProvider" /\ runs[1].arg = "azure" /\ ~runs[1].ok
    /\ GlobalConfigs(appConfigs) # <<>>

\* the provider of the stored 'global' record, the default without a record
StoredProvider(configs, e) ==
    IF GlobalConfigs(configs) # <<>> THEN GlobalConfigs(configs)[1].provider
    ELSE DEFAULT_PROVIDER(e)

\* C12 (as the specification states it): a successful setLlmProvider(p)
\* stores p, nothing but a successful setLlmProvider changes what is stored,
\* getLlmProvider returns the stored provider, or without a record openai,
\* google or bedrock by the first credential configured, and what it returns
\* is always in the allow-list.
C12_GetReturnsLastSet ==
    [][LET reply == runs'[1]
       IN  /\ reply.kind = "setLlmProvider" /\ reply.ok
              => GlobalConfigs(appConfigs') # <<>> /\ StoredProvider(appConfigs', env') = reply.arg
           /\ ~(reply.kind = "setLlmProvider" /\ reply.ok) => appConfigs' = appConfigs
           /\ reply.kind = "getLlmProvider"
              => /\ reply.provider = StoredProvider(appConfigs, env)
                 /\ reply.provider \in ALLOWED_PROVIDERS
                 /\ GlobalConfigs(appConfigs) = <<>>
                    => reply.provider = IF env.openaiKey THEN "openai"
                                        ELSE IF env.googleKey THEN "google" ELSE "bedrock"]_vars

\* C12 (amended): as above, for a getLlmProvider whose read of the AppConfig
\* store succeeds; when the read returns errors getLlmProvider returns the
\* default, whatever is stored.
C12_GetReturnsLastSetWhenRead ==
    [][LET reply == runs'[1]
           default == IF env.openaiKey THEN "openai"
                      ELSE IF env.googleKey THEN "google" ELSE "bedrock"
       IN  /\ reply.kind = "setLlmProvider" /\ reply.ok
              => GlobalConfigs(appConfigs') # <<>> /\ StoredProvider(appConfigs', env') = reply.arg
           /\ ~(reply.kind = "setLlmProvider" /\ reply.ok) => appConfigs' = appConfigs
           /\ reply.kind = "getLlmProvider"
              => /\ reply.provider \in ALLOWED_PROVIDERS
                 /\ reply.listing = "ok" => reply.provider = StoredProvider(appConfigs, env)
                 /\ reply.listing = "ok" /\ GlobalConfigs(appConfigs) = <<>>
                    => reply.provider = default
                 /\ reply.listing = "errors" => reply.provider = default]_vars

\* getLlmProvider returning a stored provider that is not the default
C12_Witness ==
    /\ runs[1].kind = "getLlmProvider" /\ runs[1].listing = "ok"
    /\ GlobalConfigs(appConfigs) # <<>>
    /\ runs[1].provider = GlobalConfigs(appConfigs)[1].provider
    /\ runs[1].provider # DEFAULT_PROVIDER(env)

\* C13: whatever setLlmProvider invocations took place, overlapping or not,
\* the AppConfig store holds at most one record of key 'global'.
C13_AtMostOneGlobalConfig == Len(GlobalConfigs(appConfigs)) <= 1

\* two invocations that both listed an empty store and both returned ok
C13_Witness ==
    /\ \A r \in RunIds : runs[r].phase = "done" /\ runs[r].ok /\ runs[r].existing = 0

----------------------------------------------------------------------------
(* Properties of the documents operations *)

\* C14: an import-by-topic that returned, for a topic with no file under its
\* local directory and nothing but placeholder keys under its bucket prefix,
\* returned ok = false, the message 'No files found ...' and total = 0, and
\* counted no Document as added or updated.
C14_NoFilesFound ==
    LET run == runs[1]
        remote == S3SourcesOf(run.topic, env, s3Keys)
    IN  /\ run.kind = "import" /\ run.phase = "done" /\ run.message # "exception"
        /\ LocalSourcesOf(run.topic, localFiles) = <<>>
        /\ \A i \in 1..Len(remote) : remote[i].ref \in KeepKeys
        => /\ ~run.ok /\ run.message = "No files found" /\ run.total = 0
           /\ run.added = 0 /\ run.updated = 0

\* an import of such a topic that found the placeholder key as its one source
C14_Witness ==
    LET run == runs[1]
    IN  /\ run.kind = "import" /\ run.phase = "done" /\ run.topic = DESIGNER_GENES
        /\ Len(run.sources) = 1 /\ run.sources[1].ref = KeepKey(DESIGNER_GENES)
        /\ run.outcomes = <<"empty">>

\* C15: documentsTopics returns the predefined topics first, then the topics
\* of the stored Documents that are neither null nor empty, each topic once;
\* when Document.list returns errors it returns the predefined topics only.
C15_TopicsPredefinedThenDiscovered ==
    LET run == runs[1]
        t == run.topics
        stored == {docs[d].topic : d \in 1..Len(docs)} \ {Null, <<>>}
    IN  run.kind = "documentsTopics"
        => /\ run.phase = "done"
           /\ Len(t) >= Len(DEFAULT_TOPICS) /\ SubSeq(t, 1, Len(DEFAULT_TOPICS)) = DEFAULT_TOPICS
           /\ \A i, j \in 1..Len(t) : i < j => t[i] # t[j]
           /\ run.listing = "ok"
              => {t[i] : i \in 1..Len(t)} = {DEFAULT_TOPICS[i] : i \in 1..Len(DEFAULT_TOPICS)} \cup stored
           /\ run.listing = "errors" => t = DEFAULT_TOPICS

\* documentsTopics over Documents of a predefined topic, of another topic held
\* by two Documents, and of no topic, listing the other topic once at the end
C15_Witness ==
    LET run == runs[1]
    IN  /\ run.kind = "documentsTopics" /\ run.listing = "ok"
        /\ run.topics = Append(DEFAULT_TOPICS, ASTRONOMY)
        /\ \E a, b, c \in 1..Len(docs) :
              /\ a # b /\ docs[a].topic = ASTRONOMY /\ docs[b].topic = ASTRONOMY
              /\ docs[c].topic \in {Null, <<>>}

\* C16: no invocation of the documents handler ends with an exception
\* thrown out of the handler; each returns a result.
C16_AlwaysStructuredResult == \A r \in RunIds : runs[r].message # "exception"

----------------------------------------------------------------------------
(* Properties of the text functions *)

\* C17 (as the specification states it): for every school and team, an empty
\* team gives '<school> Team Unspecified', a team that starts with the word
\* 'Team' in any letter case gives '<school> <team>', and any other team
\* gives '<school> Team <team>'.
C17_TeamLabelOfEverySchool ==
    LET school == OrEmpty(applied.school)
        team == OrEmpty(applied.team)
        startsWithTeam == /\ Len(team) >= 4 /\ ToLower(SubSeq(team, 1, 4)) = <<"t","e","a","m">>
                          /\ Len(team) > 4 => ~IsWordChar(team[5])
    IN  applied.fn = "normalizeSchoolTeamLabel" /\ applied.done
        => applied.out = IF team = <<>> THEN school \o <<" ","T","e","a","m"," ","U","n","s","p","e","c","i","f","i","e","d">>
                         ELSE IF startsWithTeam THEN school \o <<" ">> \o team
                         ELSE school \o <<" ","T","e","a","m"," ">> \o team

\* C17 (amended): with school and team trimmed of surrounding white space, an
\* empty school gives the empty label; otherwise an empty team gives
\* '<school> Team Unspecified', a team that starts with 'team' in any letter
\* case followed by white space gives '<school> <team>', and any other team
\* gives '<school> Team <team>'.
C17_TeamLabelOfTrimmedSchool ==
    LET school == Trim(OrEmpty(applied.school))
        team == Trim(OrEmpty(applied.team))
        startsWithTeam == /\ Len(team) > 4 /\ ToLower(SubSeq(team, 1, 4)) = <<"t","e","a","m">>
                          /\ IsSpace(team[5])
    IN  applied.fn = "normalizeSchoolTeamLabel" /\ applied.done
        => applied.out = IF school = <<>> THEN <<>>
                         ELSE IF team = <<>> THEN school \o <<" ","T","e","a","m"," ","U","n","s","p","e","c","i","f","i","e","d">>
                         ELSE IF startsWithTeam THEN school \o <<" ">> \o team
                         ELSE school \o <<" ","T","e","a","m"," ">> \o team

\* the label of a padded school and a team written 'team  b'
C17_Witness ==
    /\ applied.fn = "normalizeSchoolTeamLabel" /\ applied.done
    /\ applied.school = <<" ","L"," ","H","S"," ">> /\ applied.team = <<"t","e","a","m"," "," ","b">>
    /\ applied.out = <<"L"," ","H","S"," ","t","e","a","m"," "," ","b">>

\* whether an input of buildSnippet is a recognized table: the reserved
\* topic, the .csv format, a header naming school, rank and total, and at
\* least one more line
RecognizedTable(a) ==
    /\ a.topic = <<"s","c","i","o","l","y"," ","r","e","s","u","l","t","s">> /\ a.ext = <<".","c","s","v">>
    /\ a.table # 0 /\ CsvTables[a.table].recognized /\ Len(a.rows) >= 1

\* the lines the claim gives for a recognized table, joined by line feeds
ExpectedTabularOutput(a) ==
    LET file == CsvFiles[a.file]
        bar == <<" ","|"," ">>
        lineOf(row) ==
            file.date \o bar \o file.tournament \o bar \o row.label
              \o bar \o <<"r","a","n","k","=">> \o row.rank \o bar \o <<"t","o","t","a","l","=">> \o row.total
              \o (IF row.state # <<>> THEN bar \o <<"s","t","a","t","e","=">> \o row.state ELSE <<>>)
              \o (IF row.track # <<>> THEN bar \o <<"t","r","a","c","k","=">> \o row.track ELSE <<>>)
        emitting == SelectSeq(a.rows, LAMBDA k :
                       LET row == CsvTables[a.table].rows[k]
                       IN  row.school # <<>> /\ row.rank # <<>> /\ row.total # <<>>)
        headerLines == << <<"S","c","i","o","l","y"," ","r","e","s","u","l","t","s"," ","e","x","t","r","a","c","t","e","d"," ","f","r","o","m"," ">> \o file.base \o <<".">>,
                          <<"T","r","e","a","t"," ","e","a","c","h"," ","t","e","a","m"," ","l","a","b","e","l"," ","a","s"," ","d","i","s","t","i","n","c","t"," ","(","e","x","a","m","p","l","e",":"," ","T","e","a","m"," ","A"," ","v","s"," ","T","e","a","m"," ","B",")",".">> >>
    IN  JoinWith(headerLines \o [i \in 1..Len(emitting) |-> lineOf(CsvTables[a.table].rows[emitting[i]])],
                 <<"\n">>)

\* C18 (as the specification states it): for a recognized table the output
\* is the two header lines followed, in row order, by one line
\* 'date | tournament | teamLabel | rank=.. | total=..[ | state=..][ | track=..]'
\* for each data row that has a school, a rank and a total, the fields read
\* with their quotes removed.
C18_OneLinePerCompleteRow ==
    applied.fn = "buildSnippet" /\ applied.done /\ RecognizedTable(applied)
    => applied.out = ExpectedTabularOutput(applied)

\* C18 (amended): as above, the output being these lines cut to the first
\* 24000 characters.
C18_OneLinePerCompleteRowUpToCap ==
    applied.fn = "buildSnippet" /\ applied.done /\ RecognizedTable(applied)
    => applied.out = SubSeq(ExpectedTabularOutput(applied), 1,
                            Min(24000, Len(ExpectedTabularOutput(applied))))

\* a table of a row with a quoted comma and a row without a school, the
\* lines ending in CRLF
C18_Witness ==
    /\ applied.fn = "buildSnippet" /\ applied.done /\ RecognizedTable(applied)
    /\ applied.table = 1 /\ applied.rows = <<1, 4>> /\ applied.sep = <<"\r","\n">>
    /\ Len(SplitOn(applied.out, "\n", <<>>)) = 3

\* C19: an input that is not a recognized table (another topic, another
\* format, fewer than two non-empty lines, or a header without school, rank
\* or total) gives the text cut to its first 4000 characters, nothing added
\* and nothing rewritten.
C19_TabularOnlyForReservedTopicCsv ==
    applied.fn = "buildSnippet" /\ applied.done /\ ~RecognizedTable(applied)
    => LET text == OrEmpty(applied.text)
       IN  applied.out = SubSeq(text, 1, Min(4000, Len(text)))

\* a table with a full header under the reserved topic in another letter
\* case, returned as it is
C19_Witness ==
    /\ applied.fn = "buildSnippet" /\ applied.done
    /\ applied.topic # <<"s","c","i","o","l","y"," ","r","e","s","u","l","t","s">> /\ ToLower(applied.topic) = <<"s","c","i","o","l","y"," ","r","e","s","u","l","t","s">> /\ applied.ext = <<".","c","s","v">>
    /\ applied.table = 1 /\ applied.rows = <<1, 2>>
    /\ applied.out = applied.text

\* C20: the output has at most 24000 characters for a recognized table and
\* at most 4000 characters for any other input, however long the input.
C20_SnippetWithinCap ==
    applied.fn = "buildSnippet" /\ applied.done
    => Len(applied.out) <= IF RecognizedTable(applied) THEN 24000 ELSE 4000

\* a recognized table whose lines exceed the cap, cut to 24000 characters
C20_Witness ==
    /\ applied.fn = "buildSnippet" /\ applied.done /\ RecognizedTable(applied)
    /\ Len(ExpectedTabularOutput(applied)) > 24000
    /\ Len(applied.out) = 24000

----------------------------------------------------------------------------
(* Specification SpecBackend: one application of a function of           *)
(* src/amplify/backend.ts, cosine or extractTextFromBuffer, to a given    *)
(* input                                                                  *)

\* the applications of cosine tried: a query vector q scored against two
\* stored vectors a and b; each is missing, the empty array, or a vector of
\* one, two or three components (the zero vector among them)
CosineInputs ==
    LET vectors == { <<>>, << <<>> >>, << <<5>> >>, << <<-5>> >>, << <<3, 4>> >>, << <<-3, -4>> >>,
                     << <<4, 3>> >>, << <<0, 5>> >>, << <<0, 0>> >>, << <<2, 1, 2>> >> }
    IN  {[fn |-> "cosine", done |-> FALSE, q |-> q, a |-> a, b |-> b,
          qa |-> IntScore(0), qb |-> IntScore(0)] : q \in vectors, a \in vectors, b \in vectors}

\* the applications of extractTextFromBuffer tried: contents with null
\* bytes, control characters and surrounding white space, under the PDF and
\* Word formats (in either letter case), other formats and no format; parses
\* says whether the format's parser accepts the content
ExtractInputs ==
    LET buffers == { <<>>, <<"a","b","NUL">>, <<" ","\n">>, <<"BEL","a"," ","\f","b","NUL"," ">>,
                     <<"a","\t","b","\n","c">> }
        exts == { PDF_EXT, <<".","P","D","F">>, <<".","d","o","c","x">>, <<".","d","o","c">>,
                  <<".","t","x","t">>, <<".","b","i","n">>, <<>>, Null }
    IN  {[fn |-> "extractTextFromBuffer", done |-> FALSE, buffer |-> buffer, ext |-> ext,
          parses |-> parses, threw |-> FALSE, out |-> <<>>]
            : buffer \in buffers, ext \in exts, parses \in BOOLEAN}

InitBackend ==
    /\ env \in EnvConfigs
    /\ localFiles = LocalRels
    /\ s3Keys = {}
    /\ docs = <<>>
    /\ appConfigs = <<>>
    /\ retrieved = NoRetrieval
    /\ runs = [r \in RunIds |-> NoRun]
    /\ applied \in CosineInputs \cup ExtractInputs

\* cosine(q, a) and cosine(q, b)
ApplyCosine ==
    /\ applied.fn = "cosine" /\ ~applied.done
    /\ applied' = [applied EXCEPT !.done = TRUE,
                                  !.qa = cosine(applied.q, applied.a),
                                  !.qb = cosine(applied.q, applied.b)]
    /\ UNCHANGED <<env, localFiles, s3Keys, docs, appConfigs, runs, retrieved>>

\* extractTextFromBuffer(buffer, ext)
ApplyExtract ==
    /\ applied.fn = "extractTextFromBuffer" /\ ~applied.done
    /\ LET res == extractTextFromBuffer(applied.buffer, applied.ext, applied.parses)
       IN  applied' = [applied EXCEPT !.done = TRUE, !.threw = res.threw, !.out = res.text]
    /\ UNCHANGED <<env, localFiles, s3Keys, docs, appConfigs, runs, retrieved>>

NextBackend == ApplyCosine \/ ApplyExtract

SpecBackend == InitBackend /\ [][NextBackend]_vars

----------------------------------------------------------------------------
(* Specification SpecCorpus: ingestion runs, one at a time, of a deployment *)
(* with a bucket, over a corpus whose files and objects are removed between *)
(* runs                                                                     *)

InitCorpus ==
    /\ env \in {e \in EnvConfigs : e.bucket}
    /\ localFiles = LocalRels
    /\ s3Keys = S3CorpusKeys
    /\ docs \in InitialStores
    /\ appConfigs = <<>>
    /\ retrieved = NoRetrieval
    /\ applied = NotApplied
    /\ runs = [r \in RunIds |-> NoRun]

\* a local file or an object that a user put in the bucket is deleted while
\* no run is in progress
RemoveSource ==
    /\ \A q \in RunIds : runs[q].phase # "running"
    /\ \/ \E rel \in localFiles : localFiles' = localFiles \ {rel} /\ s3Keys' = s3Keys
       \/ \E key \in s3Keys \cap S3CorpusKeys : s3Keys' = s3Keys \ {key} /\ localFiles' = localFiles
    /\ UNCHANGED <<env, docs, appConfigs, runs, retrieved, applied>>

NextCorpus ==
    \/ \E t \in ImportTopics : StartImport(1, t)
    \/ StartPreprocess(1)
    \/ UpsertStep(1)
    \/ RemoveSource

SpecCorpus == InitCorpus /\ [][NextCorpus]_vars

----------------------------------------------------------------------------
(* Specification SpecRelabel: ingestion runs, one at a time, of a          *)
(* deployment with a bucket, import-by-topic being requested under any     *)
(* label of a folder                                                       *)

NextRelabel ==
    \/ \E t \in ImportTopics \cup OtherTopicLabels : StartImport(1, t)
    \/ StartPreprocess(1)
    \/ UpsertStep(1)

SpecRelabel == InitCorpus /\ [][NextRelabel]_vars

----------------------------------------------------------------------------
(* Specification SpecOverlap: two ingestion invocations that overlap: an   *)
(* import-by-topic and a second import-by-topic or a full preprocess, each *)
(* having enumerated its sources and listed the Documents before either    *)
(* wrote.  Their iterations over the sources interleave in any order.      *)

InitOverlap ==
    /\ env \in {e \in EnvConfigs : e.bucket}
    /\ localFiles = LocalRels
    /\ s3Keys = AllS3Keys
    /\ docs \in InitialStores
    /\ appConfigs = <<>>
    /\ retrieved = NoRetrieval
    /\ applied = NotApplied
    /\ \E first \in ImportTopics, second \in ImportTopics \cup {Null} :
         runs = [r \in RunIds |->
                   LET topic == IF r = 1 THEN first ELSE second
                   IN  [NoRun EXCEPT !.phase = "running",
                                      !.kind = IF topic = Null THEN "preprocess" ELSE "import",
                                      !.topic = topic,
                                      !.provider = DEFAULT_PROVIDER(env),
                                      !.sources = LocalSourcesOf(topic, localFiles)
                                                    \o S3SourcesOf(topic, env, s3Keys),
                                      !.byPath = BuildExistingByPath(docs),
                                      !.existingLen = Len(docs)]]

NextOverlap == \E r \in RunIds : UpsertStep(r)

SpecOverlap == InitOverlap /\ [][NextOverlap]_vars

----------------------------------------------------------------------------
(* Properties of the functions of backend.ts *)

C22_ExtractNeverThrows ==
    applied.fn = "extractTextFromBuffer" /\ applied.done
    => /\ ~applied.threw
       /\ \A i \in 1..Len(applied.out) : applied.out[i] # "NUL" /\ ~IsControlChar(applied.out[i])
       /\ Trim(applied.out) = applied.out

\* a content the PDF parser rejects, under the format .PDF: the exception
\* of the parser leaves extractTextFromBuffer
C22_Witness ==
    /\ applied.fn = "extractTextFromBuffer" /\ applied.done
    /\ applied.ext = <<".","P","D","F">> /\ ~applied.parses
    /\ applied.threw

----------------------------------------------------------------------------
(* Properties of ingestion runs *)

\* C23: computeEmbedding gives no vector when the provider has no embedding
\* backend, when its credential is absent and when the request fails; the
\* run then writes the source's Document all the same, as it would with a
\* vector, with an empty embedding and no embedding provider.
C23_NoEmbeddingStillWrites ==
    \A r \in RunIds :
        runs[r].phase = "running"
        => LET run == runs[r]
               source == run.sources[Len(run.outcomes) + 1]
               snippet == SnippetTable[source]["ok"].snippet
               written(resp) == upsertDocument(run.byPath, source, run.provider, docs, env,
                                               "ok", resp, "ok")
               documentOf(res) == CHOOSE d \in {res.ds[i] : i \in 1..Len(res.ds)} :
                                      d.id = res.byPath[source.sourcePath]
           IN  \A resp \in BackendResponses :
                   ~CallsBackend(env, run.provider) \/ resp = "fail"
                   => /\ computeEmbedding(env, snippet, run.provider, resp) = <<>>
                      /\ written(resp).outcome = written("ok").outcome
                      /\ Trim(snippet) # <<>>
                         => /\ written(resp).outcome \in {"added", "updated"}
                            /\ documentOf(written(resp)).text = snippet
                            /\ documentOf(written(resp)).embedding = <<>>
                            /\ documentOf(written(resp)).embedding_provider = NoProvider

\* a run under a provider whose credential is absent has added a Document
\* without an embedding
C23_Witness ==
    /\ runs[1].phase = "done" /\ runs[1].provider = "openai" /\ ~env.openaiKey
    /\ runs[1].added >= 1
    /\ Len(docs) = 1 /\ docs[1].text # <<>> /\ docs[1].embedding = <<>>
    /\ docs[1].embedding_provider = NoProvider

\* C24: no step of a run deletes a Document, and a Document whose path is
\* not the path of a source of the run is left as it is.
C24_NoDocumentRemoved ==
    [][ /\ Len(docs') >= Len(docs)
        /\ \A i \in 1..Len(docs) :
              PathKeyTable[docs[i].path]
                  \notin {runs[1].sources[j].sourcePath : j \in 1..Len(runs[1].sources)}
              => docs'[i] = docs[i] ]_vars

\* a full preprocess has run after the file of a Document was deleted, over
\* sources that no longer include it, and the Document is still there
C24_Witness ==
    LET removed == LocalSource(LocalCorpus[1].rel, Null)
    IN  /\ removed.ref \notin localFiles
        /\ runs[1].phase = "done" /\ runs[1].kind = "preprocess" /\ runs[1].updated >= 1
        /\ \A j \in 1..Len(runs[1].sources) : runs[1].sources[j].sourcePath # removed.sourcePath
        /\ \E i \in 1..Len(docs) : docs[i].path = removed.sourcePath

\* C25: invocations that overlap never leave two Documents with the same
\* path.
C25_OverlapNeverDuplicates ==
    \A i \in 1..Len(docs) : \A j \in 1..Len(docs) : i # j => docs[i].path # docs[j].path

\* an import-by-topic and a full preprocess that overlapped have both
\* finished, each having added the Document of the same source
C25_Witness ==
    /\ runs[1].phase = "done" /\ runs[2].phase = "done" /\ runs[2].kind = "preprocess"
    /\ \E m \in 1..Len(runs[1].sources) : \E n \in 1..Len(runs[2].sources) :
          /\ runs[1].sources[m].sourcePath = runs[2].sources[n].sourcePath
          /\ runs[1].outcomes[m] = "added" /\ runs[2].outcomes[n] = "added"

C27_PreprocessKeepsImportedTopic ==
    [][ runs[1].kind = "preprocess"
        => \A i \in 1..Len(docs) :
              /\ ~Falsy(docs[i].topic)
              /\ StartsWith(docs[i].filename, topicToSlug(docs[i].topic) \o <<"/">>)
              => docs'[i].topic = docs[i].topic /\ docs'[i].text = docs[i].text ]_vars

\* a Document under the folder forensics carries the label 'Forensics'
\* that import-by-topic was requested with, and a full preprocess has
\* started
C27_Witness ==
    /\ runs[1].kind = "preprocess" /\ runs[1].phase = "running"
    /\ \E i \in 1..Len(docs) :
          /\ docs[i].topic = <<"F","o","r","e","n","s","i","c","s">>
          /\ \E j \in 1..Len(runs[1].sources) :
                /\ runs[1].sources[j].sourcePath = docs[i].path
                /\ runs[1].sources[j].topic = FORENSICS

\* the paths that Documents of the placeholder keys and of the keys ending
\* in '/' would have
PlaceholderPaths ==
    {S3Source(key, Null).sourcePath
        : key \in {k \in AllS3Keys : k \in KeepKeys \/ EndsWith(k, <<"/">>)}}

\* C28: no step leaves a Document whose path is that of a placeholder key
\* or of a key ending in '/'; a step adds no key but placeholder keys, and
\* once the placeholder keys are there it leaves the keys as they are.
C28_NoDocumentForPlaceholder ==
    [][ /\ \A i \in 1..Len(docs') : docs'[i].path \notin PlaceholderPaths
        /\ (s3Keys' \ s3Keys) \subseteq KeepKeys
        /\ KeepKeys \subseteq s3Keys => s3Keys' = s3Keys ]_vars

\* import-by-topic of a topic whose prefix holds the placeholder only, run
\* for the second time in a row: the placeholder was enumerated and no
\* Document was written for it
C28_Witness ==
    /\ runs[1].phase = "done" /\ runs[1].kind = "import" /\ runs[1].topic = DESIGNER_GENES
    /\ runs[1].before = "clean"
    /\ Len(runs[1].sources) = 1 /\ runs[1].sources[1].ref = KeepKey(DESIGNER_GENES)
    /\ runs[1].outcomes = <<"empty">>
    /\ KeepKeys \subseteq s3Keys
    /\ \A i \in 1..Len(docs) : docs[i].path # runs[1].sources[1].sourcePath

\* C29: a step that updates a Document leaves it either with the embedding
\* that the run's provider gives its new text, tagged with that provider,
\* or, when the run got no vector, with an empty embedding and no
\* embedding provider; a run whose provider cannot embed always clears both.
C29_UpdateClearsStaleEmbedding ==
    [][ \A r \in RunIds :
          LET run == runs[r]
              n == Len(run.outcomes) + 1
          IN  run.phase = "running" /\ Len(runs'[r].outcomes) = n /\ runs'[r].outcomes[n] = "updated"
              => LET id == run.byPath[run.sources[n].sourcePath]
                     d == CHOOSE x \in {docs'[i] : i \in 1..Len(docs')} : x.id = id
                 IN  \/ d.embedding = <<>> /\ d.embedding_provider = NoProvider
                     \/ /\ CallsBackend(env, run.provider)
                        /\ d.embedding = JsonStringify(ModelVector(run.provider, d.text))
                        /\ d.embedding_provider = run.provider ]_vars

\* the Document that held an embedding of an earlier run was updated by a
\* run whose provider cannot embed, and holds no embedding any more
C29_Witness ==
    /\ runs[1].phase = "done" /\ runs[1].updated >= 1 /\ ~CallsBackend(env, runs[1].provider)
    /\ Len(docs) >= 1 /\ docs[1].id = LegacyDocument.id
    /\ docs[1].path # LegacyDocument.path
    /\ docs[1].embedding = <<>> /\ docs[1].embedding_provider = NoProvider

----------------------------------------------------------------------------
(* Properties of the retriever, continued *)

\* C30: a call ranks by embedding exactly when the query is not empty, some
\* candidate holds a non-empty embedding tagged with the requested provider
\* and the query's embedding is available; it then returns the texts of
\* such candidates only, as many as there are up to k, each scored by
\* cosine and none by keyword overlap.
C30_EmbeddingPathReturnsEmbeddedOnly ==
    LET r == retrieved
        cand == {d \in 1..Len(docs) : r.listed /\ (Falsy(r.topic) \/ docs[d].topic = r.topic)}
        matching == {d \in cand : docs[d].embedding # <<>> /\ docs[d].embedding_provider = r.provider}
        returned == {r.picked[i] : i \in 1..Len(r.picked)}
    IN  r.mode # "none"
        => /\ r.mode = "embedding" <=> ~Falsy(r.query) /\ matching # {} /\ r.qEmb # <<>>
           /\ r.mode = "embedding"
              => /\ returned \subseteq matching
                 /\ Len(r.picked) = Min(r.k, Cardinality(matching))
                 /\ Cardinality(returned) = Len(r.picked)
                 /\ \A i \in 1..Len(r.picked) :
                       /\ r.texts[i] = docs[r.picked[i]].text
                       /\ r.scores[i] = cosine(r.qEmb, <<JsonParse(docs[r.picked[i]].embedding)>>)
                       /\ r.scores[i] # IntScore(KeywordScore(docs[r.picked[i]], QueryTokens(r.query)))

\* a call for two texts ranked by embedding over three candidates of which
\* one holds an embedding of the requested provider: one text is returned
C30_Witness ==
    LET r == retrieved
        matching == {d \in 1..Len(docs) : docs[d].embedding # <<>> /\ docs[d].embedding_provider = r.provider}
    IN  /\ r.mode = "embedding" /\ Falsy(r.topic) /\ r.k = 2
        /\ Len(docs) = 3 /\ Cardinality(matching) = 1
        /\ \E d \in 1..Len(docs) : docs[d].embedding = <<>>
        /\ Len(r.texts) = 1

====
